---- MODULE Spec2Model ----
(***************************************************************************)
(* Timeline reconstruction engine of mcs-agent-analyser (src/timeline.py). *)
(*                                                                         *)
(* Representation of Python values.                                        *)
(*   A str is a sequence of characters.  A character is a TLA+ string; a   *)
(*   chunk that no operation of the code looks into (a literal of a format *)
(*   string, the date part "1970-01-01T" of a timestamp, a segment of a    *)
(*   schema name) is written as one character.                             *)
(*   In a field that holds a str, three one-character sequences stand for  *)
(*   what is not a str: MISSING (the key is absent), NONE (JSON null) and  *)
(*   NUM (a number, truthy).                                               *)
(*   A dict is a record with a fixed set of fields plus a tag t: "dict",   *)
(*   "none" (null), "missing" (key absent) or "str" (a truthy non-dict).   *)
(*   A list is a record [t, v] with t "list", "none", "missing" or "num".  *)
(***************************************************************************)
EXTENDS Integers, Sequences, FiniteSets, TLC

MISSING == <<"<missing>">>
NONE == <<"<None>">>
NUM == <<"<number>">>

IsStr(x) == x \notin {MISSING, NONE, NUM}

\* Python truthiness of a value held in a str field.
Truthy(x) == x \notin {MISSING, NONE, <<>>}

\* d.get(key, default) / d.get(key) for a str field: x is the stored field.
Get(x, default) == IF x = MISSING THEN default ELSE x

RECURSIVE Join(_, _)
\* sep.join(parts)
Join(parts, sep) ==
    IF parts = <<>> THEN <<>>
    ELSE IF Len(parts) = 1 THEN parts[1]
    ELSE parts[1] \o sep \o Join(Tail(parts), sep)

\* s[:n]
Take(s, n) == IF Len(s) <= n THEN s ELSE SubSeq(s, 1, n)

Contains(s, c) == \E k \in 1..Len(s) : s[k] = c

Min(S) == CHOOSE x \in S : \A y \in S : x <= y
Max(S) == CHOOSE x \in S : \A y \in S : x >= y

(***************************************************************************)
(* Timestamp Normalizer: timeline.py, _parse_timestamp .. _ms_between      *)
(***************************************************************************)
Digits == {"0", "1", "2", "3", "4", "5", "6", "7", "8", "9"}

DigitVal(c) ==
    CASE c = "0" -> 0 [] c = "1" -> 1 [] c = "2" -> 2 [] c = "3" -> 3
      [] c = "4" -> 4 [] c = "5" -> 5 [] c = "6" -> 6 [] c = "7" -> 7
      [] c = "8" -> 8 [] c = "9" -> 9

DigitChar(n) ==
    CASE n = 0 -> "0" [] n = 1 -> "1" [] n = 2 -> "2" [] n = 3 -> "3"
      [] n = 4 -> "4" [] n = 5 -> "5" [] n = 6 -> "6" [] n = 7 -> "7"
      [] n = 8 -> "8" [] n = 9 -> "9"

\* The one date the model's timestamps carry, with its "T": day 0 of the epoch.
EpochDate == "1970-01-01T"

\* No instant: the None of _parse_timestamp.
NoInstant == -1

RECURSIVE RStrip(_, _)
\* str.rstrip(chars): drops trailing characters that are members of chars.
RStrip(s, chars) ==
    IF s # <<>> /\ s[Len(s)] \in chars
    THEN RStrip(SubSeq(s, 1, Len(s) - 1), chars)
    ELSE s

\* ts.rsplit("+", 1)[0]: what precedes the last "+".
BeforeLastPlus(s) ==
    LET k == Max({j \in 1..Len(s) : s[j] = "+"})
    IN  SubSeq(s, 1, k - 1)

\* main, frac = ts_part.split(".", 1); frac = frac[:6]; f"{main}.{frac}"
TruncateFraction(s) ==
    IF Contains(s, ".")
    THEN LET k == Min({j \in 1..Len(s) : s[j] = "."})
             main == SubSeq(s, 1, k - 1)
             frac == SubSeq(s, k + 1, Len(s))
         IN  main \o <<".">> \o Take(frac, 6)
    ELSE s

TwoDigits(s, k) == k + 1 <= Len(s) /\ s[k] \in Digits /\ s[k + 1] \in Digits
TwoVal(s, k) == 10 * DigitVal(s[k]) + DigitVal(s[k + 1])

\* Milliseconds of a fraction of 1 to 6 digits (digits past the third are below
\* the model's millisecond grain).
FracMs(f) ==
    LET d(k) == IF k <= Len(f) THEN DigitVal(f[k]) ELSE 0
    IN  100 * d(1) + 10 * d(2) + d(3)

\* datetime.fromisoformat(s).replace(tzinfo=utc) as milliseconds since the epoch,
\* NoInstant for ValueError.  The date is EpochDate; the time is in the extended
\* format HH[:MM[:SS[.f{1,6}]]] (CPython 3.11 and later).
FromIsoformat(s) ==
    IF s = <<>> \/ s[1] # EpochDate THEN NoInstant
    ELSE
      LET t == Tail(s)
          n == Len(t)
          hh == IF TwoDigits(t, 1) THEN TwoVal(t, 1) ELSE 99
          mm == IF n >= 5 /\ t[3] = ":" /\ TwoDigits(t, 4) THEN TwoVal(t, 4) ELSE 99
          ss == IF n >= 8 /\ t[6] = ":" /\ TwoDigits(t, 7) THEN TwoVal(t, 7) ELSE 99
          frac == IF n >= 10 THEN SubSeq(t, 10, n) ELSE <<>>
          fracOk == n >= 10 /\ t[9] = "." /\ Len(frac) <= 6
                      /\ \A k \in 1..Len(frac) : frac[k] \in Digits
          base(h, m, sec) == ((h * 60 + m) * 60 + sec) * 1000
      IN  IF n = 2 /\ hh < 24 THEN base(hh, 0, 0)
          ELSE IF n = 5 /\ hh < 24 /\ mm < 60 THEN base(hh, mm, 0)
          ELSE IF n = 8 /\ hh < 24 /\ mm < 60 /\ ss < 60 THEN base(hh, mm, ss)
          ELSE IF n >= 10 /\ hh < 24 /\ mm < 60 /\ ss < 60 /\ fracOk
               THEN base(hh, mm, ss) + FracMs(frac)
          ELSE NoInstant

\* _parse_timestamp raises (AttributeError is not caught) on a truthy non-str.
ParseRaises(ts) == Truthy(ts) /\ ~IsStr(ts)

\* _parse_timestamp(ts) for ts falsy or a str.
ParseTimestamp(ts) ==
    IF ~Truthy(ts) THEN NoInstant
    ELSE
      LET stripped == RStrip(RStrip(ts, {"Z"}), {"+", "0", ":"})
          ts_part == IF Contains(stripped, "+") THEN BeforeLastPlus(stripped)
                     ELSE stripped
      IN  FromIsoformat(TruncateFraction(ts_part))

Fmt2(n) == <<DigitChar((n \div 10) % 10), DigitChar(n % 10)>>

\* _epoch_to_iso(epoch_ms) for a number of milliseconds within the epoch's first
\* day: datetime.isoformat() prints the microseconds only when they are not 0.
EpochToIso(epoch_ms) ==
    LET secs == epoch_ms \div 1000
        ms == epoch_ms % 1000
        hms == Fmt2(secs \div 3600) \o <<":">> \o Fmt2((secs \div 60) % 60)
                 \o <<":">> \o Fmt2(secs % 60)
        micro == IF ms = 0 THEN <<>>
                 ELSE <<".", DigitChar(ms \div 100), DigitChar((ms \div 10) % 10),
                        DigitChar(ms % 10), "0", "0", "0">>
    IN  <<EpochDate>> \o hms \o micro \o <<"+", "0", "0", ":", "0", "0">>

\* _ms_between(start, end) when neither argument makes _parse_timestamp raise.
MsBetween(start, end) ==
    LET dt_start == ParseTimestamp(start)
        dt_end == ParseTimestamp(end)
    IN  IF dt_start # NoInstant /\ dt_end # NoInstant THEN dt_end - dt_start
        ELSE 0

MsBetweenRaises(start, end) == ParseRaises(start) \/ ParseRaises(end)

(***************************************************************************)
(* Topic Name Resolver: parser.py, resolve_topic_name                      *)
(***************************************************************************)
\* A schema name is a str whose "." are characters of their own and whose
\* segments are chunks.  lookup is a function from schema names to names.
\* s.split(".")[-1]: what follows the last "." (all of s when it has none).
\* What precedes the first "." (all of s when it has none).
FirstSegment(s) ==
    IF Contains(s, ".")
    THEN SubSeq(s, 1, Min({j \in 1..Len(s) : s[j] = "."}) - 1)
    ELSE s

LastSegment(s) ==
    IF Contains(s, ".")
    THEN LET k == Max({j \in 1..Len(s) : s[j] = "."})
         IN  SubSeq(s, k + 1, Len(s))
    ELSE s

ResolveTopicName(schema_name, lookup) ==
    IF schema_name \in DOMAIN lookup THEN lookup[schema_name]
    ELSE LastSegment(schema_name)

(***************************************************************************)
(* Adaptive card text: timeline.py, _extract_adaptive_card_text            *)
(***************************************************************************)
CardFragmentCap == 2
CardTextMax == 150
Ellipsis == <<".", ".", ".">>

RECURSIVE ExtractItemsOnly(_, _)
\* A walk that descends into "items" only.
ExtractItemsOnly(elements, texts) ==
    IF elements = <<>> \/ Len(texts) >= CardFragmentCap THEN texts
    ELSE LET el == Head(elements)
             own == IF el.type = "TextBlock" /\ Truthy(el.text)
                    THEN Append(texts, el.text) ELSE texts
         IN  ExtractItemsOnly(Tail(elements), ExtractItemsOnly(el.items, own))

RECURSIVE ExtractFromElements(_, _)
\* _extract_from_elements(elements), texts being the list it appends to.
ExtractFromElements(elements, texts) ==
    IF elements = <<>> \/ Len(texts) >= CardFragmentCap THEN texts
    ELSE LET el == Head(elements)
             own == IF el.type = "TextBlock" /\ Truthy(el.text)
                    THEN Append(texts, el.text) ELSE texts
             inItems == ExtractFromElements(el.items, own)
             inColumns == ExtractFromElements(el.columns, inItems)
             inBody == ExtractFromElements(el.body, inColumns)
         IN  ExtractFromElements(Tail(elements), inBody)

RECURSIVE ExtractFromAttachments(_, _)
\* The loop over attachments; an attachment is modelled by its content.body.
ExtractFromAttachments(attachments, texts) ==
    IF attachments = <<>> \/ Len(texts) >= CardFragmentCap THEN texts
    ELSE ExtractFromAttachments(Tail(attachments),
                                ExtractFromElements(Head(attachments), texts))

ExtractAdaptiveCardText(attachments) ==
    LET texts == ExtractFromAttachments(attachments, <<>>)
        combined == Join(texts, <<" ", "|", " ">>)
    IN  IF texts # <<>>
        THEN IF Len(combined) > CardTextMax
             THEN Take(combined, CardTextMax) \o Ellipsis ELSE combined
        ELSE <<"[Adaptive Card]">>

(***************************************************************************)
(* models.py: TimelineEvent, ExecutionPhase, ConversationTimeline          *)
(***************************************************************************)
\* A tag (a TLA+ string the code only compares) as a str.
Str(tag) == IF tag = "" THEN <<>> ELSE <<tag>>

\* str(x) / f"{x}" of a value held in a str field.
StrOf(x) ==
    IF x = NONE THEN <<"N", "o", "n", "e">>
    ELSE IF x = NUM THEN <<"5">>
    ELSE x

\* TimelineEvent(...) with the fields the call does not pass at their defaults.
TimelineEvent(timestamp, position, event_type, summary) ==
    [timestamp |-> timestamp, position |-> position, event_type |-> event_type,
     topic_name |-> NONE, summary |-> summary, state |-> NONE, error |-> NONE,
     step_id |-> NONE, plan_identifier |-> NONE, raw_type |-> NONE]

\* pydantic 2 rejects a non-str for a field declared str | None.
EventRaises(timestamp) == timestamp = NUM

ExecutionPhase(label, phase_type, start, end, duration_ms, state) ==
    [label |-> label, phase_type |-> phase_type, start |-> start, end |-> end,
     duration_ms |-> duration_ms, state |-> state]

ConversationTimeline(b, total_elapsed) ==
    [bot_name |-> b.bot_name, conversation_id |-> b.conversation_id,
     user_query |-> b.user_query, events |-> b.events, phases |-> b.phases,
     errors |-> b.errors, total_elapsed_ms |-> total_elapsed]

(***************************************************************************)
(* Timeline Builder: timeline.py, build_timeline                           *)
(*                                                                         *)
(* An activity is a record                                                 *)
(*   [type, valueType, name, from, timestamp, received_at, position,       *)
(*    conv_id, text, attachments, value]                                   *)
(* type, valueType, name and from.role are tags ("" when absent);          *)
(* received_at and position are the two channelData numbers (0 = absent).  *)
(***************************************************************************)
NoList == [t |-> "missing", v |-> <<>>]
NoError == [t |-> "missing", n |-> 0, message |-> MISSING]

\* The `{}` that `activity.get("value", {}) or {}` yields for an absent or null value.
NoValue ==
    [t |-> "missing", steps |-> NoList, planIdentifier |-> MISSING, ask |-> MISSING,
     taskDialogId |-> MISSING, type |-> MISSING, stepId |-> MISSING,
     state |-> MISSING, error |-> NoError, wasCancelled |-> FALSE,
     planId |-> MISSING, actions |-> NoList, knowledgeSources |-> NoList,
     ErrorCode |-> MISSING, id |-> MISSING, newValue |-> MISSING,
     targetDialogId |-> MISSING]

\* Iterating a list field: TypeError on null or a number.
IterRaises(l) == l.t \in {"none", "num"}
Items(l) == l.v

\* The locals of one call (lines 94-104).
NewFrame ==
    [events |-> <<>>, phases |-> <<>>, errors |-> <<>>, bot_name |-> <<>>,
     conversation_id |-> <<>>, user_query |-> <<>>, first_timestamp |-> NONE,
     last_timestamp |-> NONE, step_triggers |-> <<>>]

\* What one loop iteration adds to the locals, or that it raised.
NoEffect(b) ==
    [raised |-> FALSE, events |-> <<>>, phases |-> <<>>, errors |-> <<>>,
     step_triggers |-> b.step_triggers, user_query |-> b.user_query]
Raised(b) == [NoEffect(b) EXCEPT !.raised = TRUE]

\* _get_timestamp(activity)
GetTimestamp(a) ==
    IF Truthy(a.timestamp) THEN a.timestamp
    ELSE IF a.received_at # 0 THEN EpochToIso(a.received_at)
    ELSE NONE

RECURSIVE NumStr(_)
\* f"{n:.0f}" of a whole number n >= 0
NumStr(n) ==
    IF n < 10 THEN <<DigitChar(n)>> ELSE NumStr(n \div 10) \o <<DigitChar(n % 10)>>

PyBool(x) == IF x THEN <<"True">> ELSE <<"False">>

BotSummaryMax == 120

RECURSIVE CleanText(_)
\* text.replace("\n", " ").replace("\r", "")
CleanText(text) ==
    IF text = <<>> THEN <<>>
    ELSE LET c == Head(text)
         IN  (IF c = "\n" THEN <<" ">> ELSE IF c = "\r" THEN <<>> ELSE <<c>>)
               \o CleanText(Tail(text))

\* Lines 134-146: a user message.
UserMessage(b, a, timestamp) ==
    LET text == Get(a.text, <<>>)
        summary == IF Truthy(text) THEN <<"User: \"">> \o StrOf(text) \o <<"\"">>
                   ELSE <<"User message">>
    IN  IF EventRaises(timestamp) THEN Raised(b)
        ELSE [NoEffect(b) EXCEPT
                !.user_query = IF ~Truthy(@) /\ Truthy(text) THEN text ELSE @,
                !.events = <<TimelineEvent(timestamp, a.position, "USER_MESSAGE",
                                           summary)>>]

\* Lines 149-165: a bot message.
BotMessage(b, a, timestamp) ==
    LET text0 == Get(a.text, <<>>)
        text == IF ~Truthy(text0) /\ a.attachments # <<>>
                THEN ExtractAdaptiveCardText(a.attachments) ELSE text0
        clean_text == CleanText(text)
        summary == IF Len(clean_text) > BotSummaryMax
                   THEN Take(clean_text, BotSummaryMax) \o Ellipsis ELSE clean_text
    IN  IF ~IsStr(text) \/ EventRaises(timestamp) THEN Raised(b)
        ELSE [NoEffect(b) EXCEPT
                !.events = <<TimelineEvent(timestamp, a.position, "BOT_MESSAGE",
                               IF summary # <<>> THEN <<"Bot: ">> \o summary
                               ELSE <<"Bot message">>)>>]

\* Lines 171-187: DynamicPlanReceived.
PlanReceived(b, value, timestamp, position, lookup) ==
    LET steps == value.steps
        step_names == [k \in 1..Len(Items(steps)) |->
                         ResolveTopicName(Items(steps)[k], lookup)]
        tools_summary == IF step_names # <<>> THEN Join(step_names, <<", ">>)
                         ELSE <<"unknown">>
    IN  IF IterRaises(steps) \/ EventRaises(timestamp) THEN Raised(b)
        ELSE [NoEffect(b) EXCEPT
                !.events = <<[TimelineEvent(timestamp, position, "PLAN_RECEIVED",
                                <<"Plan: [">> \o tools_summary \o <<"]">>)
                              EXCEPT !.plan_identifier =
                                       Get(value.planIdentifier, NONE)]>>]

\* Lines 189-199: DynamicPlanReceivedDebug.
PlanReceivedDebug(b, value, timestamp, position) ==
    IF EventRaises(timestamp) THEN Raised(b)
    ELSE [NoEffect(b) EXCEPT
            !.events = <<[TimelineEvent(timestamp, position, "PLAN_RECEIVED_DEBUG",
                            <<"Ask: \"">> \o StrOf(Get(value.ask, <<>>)) \o <<"\"">>)
                          EXCEPT !.plan_identifier =
                                   Get(value.planIdentifier, NONE)]>>]

\* A write that keeps no other entry.
RecordOnlyTrigger(step_triggers, step_id, timestamp) ==
    [k \in {step_id} |-> timestamp]

\* Step Correlator: step_triggers[step_id] = timestamp (line 210) ...
RecordTrigger(step_triggers, step_id, timestamp) ==
    [k \in DOMAIN step_triggers \cup {step_id} |->
        IF k = step_id THEN timestamp ELSE step_triggers[k]]

\* A lookup that falls back to the trigger of another step.
LookupAnyTrigger(step_triggers, step_id) ==
    IF step_id \in DOMAIN step_triggers THEN step_triggers[step_id]
    ELSE IF DOMAIN step_triggers # {}
         THEN step_triggers[CHOOSE k \in DOMAIN step_triggers : TRUE]
    ELSE NONE

\* ... and step_triggers.get(step_id) (line 236).
LookupTrigger(step_triggers, step_id) ==
    IF step_id \in DOMAIN step_triggers THEN step_triggers[step_id] ELSE NONE

\* Lines 201-223: DynamicPlanStepTriggered.
StepTriggered(b, value, timestamp, position, lookup) ==
    LET topic == ResolveTopicName(Get(value.taskDialogId, <<>>), lookup)
        step_type == Get(value.type, <<>>)
        step_id == Get(value.stepId, <<>>)
    IN  IF EventRaises(timestamp) THEN Raised(b)
        ELSE [NoEffect(b) EXCEPT
                !.step_triggers =
                    IF Truthy(step_id) /\ Truthy(timestamp)
                    THEN RecordTrigger(@, step_id, timestamp) ELSE @,
                !.events = <<[TimelineEvent(timestamp, position, "STEP_TRIGGERED",
                                <<"Step start: ">> \o topic \o <<" (">> \o step_type
                                  \o <<")">>)
                              EXCEPT !.topic_name = topic,
                                     !.state = <<"inProgress">>,
                                     !.step_id = step_id,
                                     !.plan_identifier =
                                       Get(value.planIdentifier, NONE)]>>]

\* Lines 235-238: the duration of a finished step.
StepDurationRaises(trigger_ts, timestamp) ==
    Truthy(trigger_ts) /\ Truthy(timestamp) /\ MsBetweenRaises(trigger_ts, timestamp)

StepDuration(trigger_ts, timestamp) ==
    IF Truthy(trigger_ts) /\ Truthy(timestamp) THEN MsBetween(trigger_ts, timestamp)
    ELSE 0

\* Lines 240-246: error is [t, n, message], n the number of keys of a dict.
IsErrorObject(error) == error.t = "dict" /\ error.n > 0

StepErrorMsg(state, error) ==
    IF IsErrorObject(error) THEN Get(error.message, <<"{...}">>)
    ELSE IF state = <<"failed">> THEN <<"Step failed">>
    ELSE NONE

\* The two tests of lines 241 and 244 as independent ifs.
StepErrorsBoth(topic, state, error) ==
    (IF IsErrorObject(error)
     THEN <<topic \o <<": ">> \o StrOf(StepErrorMsg(state, error))>> ELSE <<>>)
      \o (IF state = <<"failed">> THEN <<topic \o <<": failed">>>> ELSE <<>>)

StepErrors(topic, state, error) ==
    IF IsErrorObject(error)
    THEN <<topic \o <<": ">> \o StrOf(StepErrorMsg(state, error))>>
    ELSE IF state = <<"failed">> THEN <<topic \o <<": failed">>>>
    ELSE <<>>

\* Lines 225-271: DynamicPlanStepFinished.
StepFinished(b, value, timestamp, position, lookup) ==
    LET topic == ResolveTopicName(Get(value.taskDialogId, <<>>), lookup)
        state == Get(value.state, <<>>)
        step_id == Get(value.stepId, <<>>)
        trigger_ts == LookupTrigger(b.step_triggers, step_id)
        duration_ms == StepDuration(trigger_ts, timestamp)
        summary == <<"Step end: ">> \o topic \o <<" [">> \o state \o <<"]">>
                     \o (IF duration_ms > 0
                         THEN <<" (">> \o NumStr(duration_ms) \o <<"ms)">> ELSE <<>>)
    IN  IF StepDurationRaises(trigger_ts, timestamp) \/ EventRaises(timestamp)
        THEN Raised(b)
        ELSE [NoEffect(b) EXCEPT
                !.errors = StepErrors(topic, state, value.error),
                !.events = <<[TimelineEvent(timestamp, position, "STEP_FINISHED",
                                            summary)
                              EXCEPT !.topic_name = topic,
                                     !.state = state,
                                     !.error = StepErrorMsg(state, value.error),
                                     !.step_id = step_id,
                                     !.plan_identifier =
                                       Get(value.planIdentifier, NONE)]>>,
                !.phases = <<ExecutionPhase(topic, Get(value.type, <<>>), trigger_ts,
                                            timestamp, duration_ms, state)>>]

\* Lines 273-283: DynamicPlanFinished.
PlanFinished(b, value, timestamp, position) ==
    IF EventRaises(timestamp) THEN Raised(b)
    ELSE [NoEffect(b) EXCEPT
            !.events = <<[TimelineEvent(timestamp, position, "PLAN_FINISHED",
                            <<"Plan finished (cancelled=">>
                              \o PyBool(value.wasCancelled) \o <<")">>)
                          EXCEPT !.plan_identifier = Get(value.planId, NONE)]>>]

\* The display names of the model in Python's string order: sorted() of a set of
\* them is the subsequence of its members.
NameOrder == <<<<"Auth Flow">>, <<"Main">>, <<"Main Topic">>, <<"Search">>, <<"X">>>>

Sorted(S) == SelectSeq(NameOrder, LAMBDA n : n \in S)

DialogActionsShown == 4

\* Lines 287-296: one error string per sub-action that carries an exception.
RECURSIVE ActionErrors(_, _)
ActionErrors(actions, lookup) ==
    IF actions = <<>> THEN <<>>
    ELSE LET action == Head(actions)
             topic == ResolveTopicName(Get(action.topicId, <<>>), lookup)
             action_type == Get(action.actionType, <<>>)
             exception == Get(action.exception, <<>>)
         IN  (IF Truthy(exception)
              THEN <<topic \o <<".">> \o action_type \o <<": ">> \o exception>>
              ELSE <<>>) \o ActionErrors(Tail(actions), lookup)

\* Lines 298-320: the events of a DialogTracingInfo record.
ActionEvents(actions, timestamp, position, lookup) ==
    LET action_types == [k \in 1..Len(actions) |-> Get(actions[k].actionType, <<>>)]
        topics_involved ==
            {ResolveTopicName(actions[k].topicId, lookup) :
                k \in {j \in 1..Len(actions) : Truthy(Get(actions[j].topicId, <<>>))}}
        shown == <<"Actions: ">> \o Join(Take(action_types, DialogActionsShown), <<", ">>)
        more == IF Len(action_types) > DialogActionsShown
                THEN <<" (+">> \o NumStr(Len(action_types) - DialogActionsShown)
                       \o <<" more)">>
                ELSE <<>>
        where == IF topics_involved # {}
                 THEN <<" in ">> \o Join(Sorted(topics_involved), <<", ">>) ELSE <<>>
    IN  <<TimelineEvent(timestamp, position, "DIALOG_TRACING", shown \o more \o where)>>

\* Lines 285-320: DialogTracingInfo.
DialogTracingInfo(b, value, timestamp, position, lookup) ==
    IF IterRaises(value.actions) \/ EventRaises(timestamp) THEN Raised(b)
    ELSE [NoEffect(b) EXCEPT
            !.errors = ActionErrors(Items(value.actions), lookup),
            !.events = ActionEvents(Items(value.actions), timestamp, position, lookup)]

KnowledgeShown == 3

\* Lines 322-333: UniversalSearchToolTraceData.
KnowledgeSearch(b, value, timestamp, position) ==
    LET sources == Items(value.knowledgeSources)
        source_names == [k \in 1..Len(sources) |-> LastSegment(sources[k])]
        summary == <<"Knowledge search: [">>
                     \o Join(Take(source_names, KnowledgeShown), <<", ">>) \o <<"]">>
                     \o (IF Len(source_names) > KnowledgeShown
                         THEN <<" (+">> \o NumStr(Len(source_names) - KnowledgeShown)
                                \o <<")">>
                         ELSE <<>>)
    IN  IF IterRaises(value.knowledgeSources) \/ EventRaises(timestamp) THEN Raised(b)
        ELSE [NoEffect(b) EXCEPT
                !.events = <<TimelineEvent(timestamp, position, "KNOWLEDGE_SEARCH",
                                           summary)>>]

\* Lines 335-346 and 376-387: an error code.
ErrorCodeEvent(b, error_code, timestamp, position) ==
    IF EventRaises(timestamp) THEN Raised(b)
    ELSE [NoEffect(b) EXCEPT
            !.errors = <<<<"ErrorCode: ">> \o error_code>>,
            !.events = <<[TimelineEvent(timestamp, position, "ERROR",
                                        <<"Error: ">> \o error_code)
                          EXCEPT !.error = error_code]>>]

\* str.title() over the letters the model's scopes use: a letter is upper-cased
\* after a non-letter and lower-cased after a letter.
LowerLetters == {"a", "b", "g", "l", "o"}
UpperLetters == {"A", "B", "G", "L", "O"}

UpperOf(c) ==
    CASE c = "a" -> "A" [] c = "b" -> "B" [] c = "g" -> "G" [] c = "l" -> "L"
      [] c = "o" -> "O" [] OTHER -> c

LowerOf(c) ==
    CASE c = "A" -> "a" [] c = "B" -> "b" [] c = "G" -> "g" [] c = "L" -> "l"
      [] c = "O" -> "o" [] OTHER -> c

Title(s) ==
    [k \in 1..Len(s) |->
        IF k > 1 /\ s[k - 1] \in LowerLetters \cup UpperLetters
        THEN LowerOf(s[k]) ELSE UpperOf(s[k])]

NewValueMax == 80
TargetIdMax == 40

\* Lines 352-363: VariableAssignment.
VariableAssignment(b, value, timestamp, position) ==
    LET var_id == Get(value.id, <<>>)
        new_value == Take(StrOf(Get(value.newValue, <<>>)), NewValueMax)
        scope == Get(value.type, <<>>)
    IN  IF EventRaises(timestamp) THEN Raised(b)
        ELSE [NoEffect(b) EXCEPT
                !.events = <<TimelineEvent(timestamp, position, "VARIABLE_ASSIGNMENT",
                               Title(scope) \o <<" ">> \o var_id \o <<" = ">>
                                 \o new_value)>>]

\* Lines 365-374: DialogRedirect.  The arrow of the summary's literal is written
\* "->" here.
DialogRedirect(b, value, timestamp, position) ==
    LET target_id == Get(value.targetDialogId, <<>>)
    IN  IF EventRaises(timestamp) THEN Raised(b)
        ELSE [NoEffect(b) EXCEPT
                !.events = <<TimelineEvent(timestamp, position, "DIALOG_REDIRECT",
                               <<"Redirect -> ">> \o Take(target_id, TargetIdMax))>>]

\* Lines 168-346: an activity of type "event".  A truthy value that is no dict
\* raises in the first value.get of the branch taken.
EventActivity(b, a, value_type, timestamp, lookup) ==
    LET value == IF a.value.t = "dict" THEN a.value ELSE NoValue
        position == a.position
        recognized == {"DynamicPlanReceived", "DynamicPlanReceivedDebug",
                       "DynamicPlanStepTriggered", "DynamicPlanStepFinished",
                       "DynamicPlanFinished", "DialogTracingInfo",
                       "UniversalSearchToolTraceData", "ErrorCode"}
    IN  IF value_type \notin recognized THEN NoEffect(b)
        ELSE IF a.value.t = "str" THEN Raised(b)
        ELSE CASE value_type = "DynamicPlanReceived" ->
                    PlanReceived(b, value, timestamp, position, lookup)
               [] value_type = "DynamicPlanReceivedDebug" ->
                    PlanReceivedDebug(b, value, timestamp, position)
               [] value_type = "DynamicPlanStepTriggered" ->
                    StepTriggered(b, value, timestamp, position, lookup)
               [] value_type = "DynamicPlanStepFinished" ->
                    StepFinished(b, value, timestamp, position, lookup)
               [] value_type = "DynamicPlanFinished" ->
                    PlanFinished(b, value, timestamp, position)
               [] value_type = "DialogTracingInfo" ->
                    DialogTracingInfo(b, value, timestamp, position, lookup)
               [] value_type = "UniversalSearchToolTraceData" ->
                    KnowledgeSearch(b, value, timestamp, position)
               [] value_type = "ErrorCode" ->
                    ErrorCodeEvent(b, Get(value.ErrorCode, <<"Unknown">>), timestamp,
                                   position)

\* Lines 349-387: an activity of type "trace".
TraceActivity(b, a, value_type, timestamp) ==
    LET value == IF a.value.t = "dict" THEN a.value ELSE NoValue
    IN  IF a.value.t = "str" THEN Raised(b)
        ELSE IF value_type = "VariableAssignment"
             THEN VariableAssignment(b, value, timestamp, a.position)
        ELSE IF value_type = "DialogRedirect"
             THEN DialogRedirect(b, value, timestamp, a.position)
        ELSE IF Truthy(value.ErrorCode)
             THEN ErrorCodeEvent(b, value.ErrorCode, timestamp, a.position)
        ELSE NoEffect(b)

\* Lines 115-121 without the `not bot_name` / `not conversation_id` tests.
TrackNamesLastWins(b, from_info, conv_id) ==
    [b EXCEPT
       !.bot_name = IF Truthy(from_info.name) /\ from_info.role = "bot"
                    THEN from_info.name ELSE @,
       !.conversation_id = IF Truthy(conv_id) THEN conv_id ELSE @]

\* Lines 115-121: bot name and conversation id, first write wins.
TrackNames(b, from_info, conv_id) ==
    [b EXCEPT
       !.bot_name = IF ~Truthy(@) /\ Truthy(from_info.name) /\ from_info.role = "bot"
                    THEN from_info.name ELSE @,
       !.conversation_id = IF ~Truthy(@) /\ Truthy(conv_id) THEN conv_id ELSE @]

\* Lines 123-127: the time range.
TrackTimeRange(b, timestamp) ==
    IF Truthy(timestamp)
    THEN [b EXCEPT !.first_timestamp = IF ~Truthy(@) THEN timestamp ELSE @,
                   !.last_timestamp = timestamp]
    ELSE b

\* Lines 129-387: the branch of the loop body an activity takes.
Classify(b, a, role, value_type, timestamp, lookup) ==
    IF a.type = "typing" THEN NoEffect(b)
    ELSE IF a.type = "message" /\ role = "user" THEN UserMessage(b, a, timestamp)
    ELSE IF a.type = "message" /\ role = "bot" THEN BotMessage(b, a, timestamp)
    ELSE IF a.type = "event" THEN EventActivity(b, a, value_type, timestamp, lookup)
    ELSE IF a.type = "trace" THEN TraceActivity(b, a, value_type, timestamp)
    ELSE NoEffect(b)

\* A list grown at its head.
Prepend(list, added) == added \o list

\* events.append / phases.append / errors.append: what one iteration appends.
Extend(list, added) == list \o added

\* Lines 106-387: one iteration of the loop on locals b: [raised, b].
ProcessActivity(b, a, lookup) ==
    IF a.from.t = "str" THEN [raised |-> TRUE, b |-> b]
    ELSE
      LET from_info == IF a.from.t = "dict" THEN a.from
                       ELSE [t |-> "dict", role |-> "", name |-> MISSING]
          value_type == IF a.valueType # "" THEN a.valueType ELSE a.name
          timestamp == GetTimestamp(a)
          tracked == TrackTimeRange(TrackNames(b, from_info, a.conv_id), timestamp)
          eff == Classify(tracked, a, from_info.role, value_type, timestamp, lookup)
      IN  IF eff.raised THEN [raised |-> TRUE, b |-> b]
          ELSE [raised |-> FALSE,
                b |-> [tracked EXCEPT !.events = Extend(@, eff.events),
                                      !.phases = Extend(@, eff.phases),
                                      !.errors = Extend(@, eff.errors),
                                      !.step_triggers = eff.step_triggers,
                                      !.user_query = eff.user_query]]

\* Lines 389-399: the end of the call; ConversationTimeline(user_query=...) is
\* validated by pydantic.
ReturnRaises(b) ==
    MsBetweenRaises(b.first_timestamp, b.last_timestamp) \/ ~IsStr(b.user_query)

ReturnValue(b) ==
    ConversationTimeline(b, MsBetween(b.first_timestamp, b.last_timestamp))

(***************************************************************************)
(* The inputs of the model                                                 *)
(***************************************************************************)
Ts(hms) == <<EpochDate>> \o hms

TS_1 == Ts(<<"0", "0", ":", "0", "0", ":", "0", "1", "Z">>)
TS_2_5 == Ts(<<"0", "0", ":", "0", "0", ":", "0", "2", ".", "5", "0", "0", "Z">>)
TS_3 == Ts(<<"0", "0", ":", "0", "0", ":", "0", "3", "Z">>)
TS_10 == Ts(<<"0", "0", ":", "0", "0", ":", "1", "0", "Z">>)
TS_BAD == <<"garbage">>

MainSchema == <<"bot", ".", "topic", ".", "Main">>
SearchSchema == <<"bot", ".", "topic", ".", "Search">>
AuthSchema == <<"bot", ".", "topic", ".", "Auth">>

EmptyLookup == [n \in {} |-> <<>>]
MainLookup == [n \in {MainSchema, AuthSchema} |->
                 IF n = MainSchema THEN <<"Main Topic">> ELSE <<"Auth Flow">>]

From(role, name) == [t |-> "dict", role |-> role, name |-> name]
BotA == From("bot", <<"BotA">>)
BotB == From("bot", <<"BotB">>)
Nameless == From("bot", MISSING)
Alice == From("user", <<"Alice">>)

Activity(type, valueType, from, timestamp) ==
    [type |-> type, valueType |-> valueType, name |-> "", from |-> from,
     timestamp |-> timestamp, received_at |-> 0, position |-> 0,
     conv_id |-> MISSING, text |-> MISSING, attachments |-> <<>>,
     value |-> NoValue]

Value == [NoValue EXCEPT !.t = "dict"]
List(v) == [t |-> "list", v |-> v]

Message(from, timestamp, conv_id, text) ==
    [Activity("message", "", from, timestamp) EXCEPT !.conv_id = conv_id,
                                                     !.text = text]

Event(valueType, timestamp, value) ==
    [Activity("event", valueType, Nameless, timestamp) EXCEPT !.value = value]

Trace(valueType, timestamp, value) ==
    [Activity("trace", valueType, Nameless, timestamp) EXCEPT !.value = value]

TextBlock(text) ==
    [type |-> "TextBlock", text |-> text, items |-> <<>>, columns |-> <<>>,
     body |-> <<>>]
Container(items) ==
    [type |-> "Container", text |-> MISSING, items |-> items, columns |-> <<>>,
     body |-> <<>>]

Trigger(step_id, timestamp) ==
    Event("DynamicPlanStepTriggered", timestamp,
          [Value EXCEPT !.stepId = step_id, !.taskDialogId = MainSchema,
                        !.type = <<"KnowledgeSource">>])

Finish(step_id, timestamp, state, error) ==
    Event("DynamicPlanStepFinished", timestamp,
          [Value EXCEPT !.stepId = step_id, !.taskDialogId = MainSchema,
                        !.state = state, !.error = error])

ErrorWith(message) == [t |-> "dict", n |-> 1, message |-> message]
EmptyError == [t |-> "dict", n |-> 0, message |-> MISSING]
StringError == [t |-> "str", n |-> 0, message |-> MISSING]
ErrorObjects == {NoError, EmptyError, ErrorWith(<<"boom">>), ErrorWith(MISSING),
                 StringError}

Action(topicId, actionType, exception) ==
    [topicId |-> topicId, actionType |-> actionType, exception |-> exception]

Tracing(timestamp, actions) ==
    Event("DialogTracingInfo", timestamp, [Value EXCEPT !.actions = actions])

S1 == <<"s1">>
S2 == <<"s2">>
Completed == <<"completed">>
Failed == <<"failed">>
C1Id == <<"conv-1">>
C2Id == <<"conv-2">>

HttpInMain == Action(MainSchema, <<"HttpRequestAction">>, <<>>)
BeginInMain == Action(MainSchema, <<"BeginDialog">>, <<>>)
SendInMain == Action(MainSchema, <<"SendActivity">>, <<>>)
ConditionInAuth == Action(AuthSchema, <<"ConditionGroup">>, <<>>)
ParseFails == Action(<<"X">>, <<"ParseValue">>, <<"bad input">>)
SendFails == Action(SearchSchema, <<"SendActivity">>, <<"timeout">>)

Tracings ==
    {Tracing(TS_1, List(<<HttpInMain, BeginInMain, SendInMain>>)),
     Tracing(TS_1, List(<<ParseFails, ConditionInAuth, SendFails>>)),
     Tracing(MISSING, List(<<ParseFails>>)),
     Tracing(TS_3, List(<<>>))}

\* Step records: every pairing of two step ids with parseable, unparseable and
\* absent timestamps, and every pairing of a state with an error value.
\* Every field holds a value of the type the code reads it as, so no iteration
\* over these records raises.
StepActivities ==
    {Trigger(s, ts) : s \in {S1, S2}, ts \in {TS_1, TS_3, TS_10, MISSING}}
      \cup {Trigger(MISSING, TS_1)}
      \cup {Finish(s, ts, Completed, NoError) :
              s \in {S1, S2}, ts \in {TS_1, TS_3, TS_10, MISSING}}
      \cup {Finish(S1, TS_3, st, e) : st \in {Completed, Failed}, e \in ErrorObjects}
      \cup Tracings

\* Records that can append to errors: finished steps with every pairing of a
\* state with an error object (absent, empty, with a message that is a str, the
\* empty str, null or absent), traces with and without exceptions, ErrorCode
\* events and traces; and records that cannot.
ErrorActivities ==
    {Finish(S1, TS_3, st, e) :
        st \in {Completed, Failed},
        e \in {NoError, EmptyError, ErrorWith(<<"boom">>), ErrorWith(MISSING),
               ErrorWith(<<>>), ErrorWith(NONE)}}
      \cup Tracings
      \cup {Trigger(S1, TS_1),
            Event("ErrorCode", TS_3, [Value EXCEPT !.ErrorCode = <<"E42">>]),
            Event("ErrorCode", TS_3, Value),
            Trace("SomeOtherTrace", TS_3, [Value EXCEPT !.ErrorCode = <<"E7">>])}

\* Records that differ in sender, conversation id, text or timestamp.
MetaActivities ==
    {Message(f, MISSING, MISSING, <<"x">>) :
        f \in {BotA, BotB, Nameless, Alice, From("bot", <<>>),
               [t |-> "none", role |-> "", name |-> MISSING]}}
      \cup {Message(Alice, MISSING, c, <<>>) : c \in {C1Id, C2Id, <<>>}}
      \cup {Message(Alice, MISSING, MISSING, t) : t \in {<<"H", "i">>, <<"Y", "o">>}}
      \cup {Activity("typing", "", BotB, ts) :
              ts \in {TS_1, TS_2_5, TS_3, TS_10, TS_BAD}}
      \cup {[Activity("typing", "", Nameless, MISSING) EXCEPT !.received_at = 4000]}

CardOfTwo == <<<<Container(<<TextBlock(<<"a">>)>>), TextBlock(<<"b">>),
                 TextBlock(<<"c">>)>>>>

\* One or two records of every kind the loop distinguishes, the malformed ones
\* among them.
Activities ==
    {Activity("typing", "", BotB, TS_1),
     Message(Alice, TS_1, C1Id, <<"H", "i">>),
     Message(Alice, TS_3, C2Id, <<"Y", "\n", "o">>),
     Message(Alice, MISSING, MISSING, NONE),
     Message(Alice, MISSING, MISSING, NUM),
     Message(Alice, NUM, MISSING, <<"x">>),
     Message(BotA, TS_2_5, C1Id, <<"o", "k", "\r", "\n", "!">>),
     [Message(BotB, TS_10, C2Id, MISSING) EXCEPT !.attachments = CardOfTwo],
     Message(Nameless, MISSING, MISSING, NONE),
     [Message(Nameless, MISSING, MISSING, <<>>) EXCEPT !.received_at = 3001],
     Message(From("", <<"Ghost">>), TS_1, MISSING, <<"x">>),
     [Trigger(S1, TS_1) EXCEPT !.from = [t |-> "str", role |-> "", name |-> MISSING]],
     [Activity("event", "", Nameless, TS_1) EXCEPT
        !.name = "DynamicPlanReceived",
        !.value = [Value EXCEPT !.steps = List(<<MainSchema, <<"Search">>>>),
                                !.planIdentifier = <<"p1">>]],
     Event("DynamicPlanReceived", TS_1, [Value EXCEPT !.steps = [t |-> "none", v |-> <<>>]]),
     Event("DynamicPlanReceived", TS_1, [NoValue EXCEPT !.t = "none"]),
     Event("DynamicPlanReceivedDebug", TS_1, [Value EXCEPT !.ask = <<"w", "h", "y">>]),
     Trigger(S1, TS_1),
     Finish(S1, TS_3, Completed, NoError),
     Finish(S1, TS_1, Failed, ErrorWith(<<"boom">>)),
     Event("DynamicPlanFinished", TS_3, [Value EXCEPT !.wasCancelled = TRUE,
                                                      !.planId = <<"p1">>]),
     Event("DynamicPlanFinished", TS_3, [NoValue EXCEPT !.t = "str"]),
     Tracing(TS_1, List(<<HttpInMain, BeginInMain, SendInMain>>)),
     Tracing(TS_1, List(<<ParseFails, ConditionInAuth, SendFails>>)),
     Tracing(TS_1, [t |-> "none", v |-> <<>>]),
     Event("UniversalSearchToolTraceData", TS_3,
           [Value EXCEPT !.knowledgeSources =
              List(<<<<"bot", ".", "file", ".", "A">>, <<"B">>, <<"C">>, <<"D">>>>)]),
     Event("ErrorCode", TS_3, [Value EXCEPT !.ErrorCode = <<"E42">>]),
     Event("SomethingElse", TS_3, Value),
     Trace("VariableAssignment", TS_3,
           [Value EXCEPT !.id = <<"Var1">>, !.newValue = NUM,
                         !.type = <<"g", "l", "o", "b", "a", "l">>]),
     Trace("DialogRedirect", TS_3, [Value EXCEPT !.targetDialogId = MainSchema]),
     Trace("SomethingElse", TS_3, [Value EXCEPT !.ErrorCode = <<"E7">>]),
     Trace("SomethingElse", TS_3, Value),
     Trace("SomethingElse", TS_3, [NoValue EXCEPT !.t = "str"])}

\* Records whose effect differs when locals leak from one call to another.
PairActivities ==
    {Trigger(S1, TS_1), Finish(S1, TS_3, Failed, NoError),
     Message(Alice, TS_1, C1Id, <<"H", "i">>), Message(BotA, NUM, C1Id, <<"x">>),
     Tracing(TS_1, List(<<ParseFails, ConditionInAuth, SendFails>>))}

SetVariable == Action(MainSchema, <<"SetVariable">>, <<>>)
Untyped == Action(MISSING, MISSING, <<>>)

\* DialogTracingInfo records by number and place of the sub-actions whose type
\* has no event type of its own (ParseValue, SetVariable).
TraceActivities ==
    {Tracing(TS_1, List(<<ParseFails>>)),
     Tracing(TS_1, List(<<ParseFails, SetVariable>>)),
     Tracing(TS_1, List(<<HttpInMain, ParseFails, SendInMain>>)),
     Tracing(TS_3, List(<<HttpInMain, BeginInMain, SendInMain, ConditionInAuth,
                          SetVariable>>)),
     Tracing(TS_3, List(<<HttpInMain, BeginInMain>>)),
     Tracing(TS_3, List(<<Untyped>>)),
     Tracing(MISSING, List(<<>>)),
     Trigger(S1, TS_1)}

\* Timestamps without a zone suffix, each with the instant it denotes (in
\* milliseconds of its day), and the suffixes they come with.
WellFormed ==
    {[hms |-> <<"0", "0", ":", "0", "0", ":", "0", "1">>, ms |-> 1000],
     [hms |-> <<"0", "0", ":", "0", "0", ":", "0", "3">>, ms |-> 3000],
     [hms |-> <<"0", "0", ":", "0", "0", ":", "1", "0">>, ms |-> 10000],
     [hms |-> <<"0", "0", ":", "0", "1", ":", "0", "0">>, ms |-> 60000],
     [hms |-> <<"1", "0", ":", "0", "0", ":", "0", "0">>, ms |-> 36000000],
     [hms |-> <<"0", "0", ":", "0", "0", ":", "0", "2", ".", "5", "0", "0">>,
      ms |-> 2500],
     [hms |-> <<"0", "0", ":", "0", "0", ":", "0", "2", ".", "0", "0", "0">>,
      ms |-> 2000],
     [hms |-> <<"0", "0", ":", "0", "0", ":", "0", "1", ".", "1", "2", "3", "4",
                "5", "6", "7">>, ms |-> 1123]}

Suffixes == {<<>>, <<"Z">>, <<"+", "0", "0", ":", "0", "0">>}

Stamp(w, suffix) == Ts(w.hms \o suffix)

\* What is no timestamp: text, the empty string, None and a number.
Malformed == {TS_BAD, <<>>, NONE, NUM, <<EpochDate>>, Ts(<<"2", "5", ":", "0", "1">>)}

ParseInputs == {Stamp(w, s) : w \in WellFormed, s \in Suffixes} \cup Malformed

Element(type, text, items, columns, body) ==
    [type |-> type, text |-> text, items |-> items, columns |-> columns,
     body |-> body]

\* A text of n characters.
Long(n) == [k \in 1..n |-> "x"]

\* Card bodies: flat, nested through items, columns and body, without any text,
\* and with texts at and past the 150 characters of the cut.
CardBodies ==
    {<<>>,
     <<TextBlock(<<"a">>), TextBlock(<<"b">>)>>,
     <<Container(<<TextBlock(<<"a">>)>>), TextBlock(<<"b">>), TextBlock(<<"c">>)>>,
     <<TextBlock(<<>>), Container(<<>>), TextBlock(<<"d">>)>>,
     <<TextBlock(<<>>), Container(<<TextBlock(MISSING)>>)>>,
     <<Element("TextBlock", <<"p">>, <<TextBlock(<<"q">>)>>, <<>>, <<>>),
       TextBlock(<<"r">>)>>,
     <<Element("ColumnSet", MISSING, <<>>,
               <<Container(<<TextBlock(<<"c", "1">>)>>),
                 Container(<<TextBlock(<<"c", "2">>)>>)>>, <<>>),
       TextBlock(<<"e">>)>>,
     <<Element("Carousel", <<"no">>, <<>>, <<>>, <<TextBlock(<<"i", "n">>)>>)>>,
     <<TextBlock(Long(100)), TextBlock(Long(47))>>,
     <<TextBlock(Long(100)), TextBlock(Long(48))>>,
     <<TextBlock(Long(151))>>}

\* Attachments lists of up to two cards.
CardInputs ==
    {<<>>} \cup {<<x>> : x \in CardBodies}
           \cup {<<x, y>> : x \in CardBodies, y \in CardBodies}

\* Schema names: with and without dots, ending in a dot, starting with one, empty.
SchemaNames ==
    {<<"a", ".", "b", ".", "C">>, <<"NoDotsHere">>, MainSchema, AuthSchema,
     <<"a", ".">>, <<".", "x">>, <<"x", ".", "y">>, <<>>}

\* Lookups: empty, with the names above as keys, with an empty display name and
\* with a display name that has dots of its own.
Lookups ==
    {EmptyLookup, MainLookup,
     [n \in {<<"a", ".", "b", ".", "C">>} |-> <<"Display">>],
     [n \in {<<"NoDotsHere">>, <<"a", ".">>} |-> <<>>],
     [n \in {<<"x", ".", "y">>, <<>>} |-> <<"v", ".", "1">>]}

(***************************************************************************)
(* Upstream collaborators: parser.py, parse_dialog_json and transcript.py, *)
(* parse_transcript_json                                                   *)
(***************************************************************************)
\* A JSON field that may hold a number: the number n, a str s, or nothing.
JNum(n) == [t |-> "num", n |-> n, s |-> <<>>]
JStr(s) == [t |-> "str", n |-> 0, s |-> s]
JAbsent == [t |-> "missing", n |-> 0, s |-> <<>>]

\* The numbers 0, 1 and 2 in the field from.role, which otherwise holds a str.
INT0 == "<0>"
INT1 == "<1>"
INT2 == "<2>"

\* A record of the "activities" array: position is
\* channelData["webchat:internal:position"], value an opaque chunk.
Raw(role, timestamp, position, valueType, name, value) ==
    [role |-> role, timestamp |-> timestamp, position |-> position,
     valueType |-> valueType, name |-> name, value |-> value]

\* get_position(activity)
GetPosition(activity) ==
    IF activity.position.t = "missing" THEN 0 ELSE activity.position.n

RECURSIVE InsertByPosition(_, _)
\* a goes before the first record of the sorted list whose key is not smaller.
InsertByPosition(a, sorted) ==
    IF sorted = <<>> THEN <<a>>
    ELSE IF GetPosition(Head(sorted)) >= GetPosition(a) THEN <<a>> \o sorted
    ELSE <<Head(sorted)>> \o InsertByPosition(a, Tail(sorted))

RECURSIVE SortByPosition(_)
\* activities.sort(key=get_position): list.sort is stable.
SortByPosition(acts) ==
    IF acts = <<>> THEN <<>>
    ELSE InsertByPosition(Head(acts), SortByPosition(Tail(acts)))

ParseDialogJson(acts) == SortByPosition(acts)

\* Steps 1 to 4 of the loop of parse_transcript_json on the record at index idx.
\* Epoch seconds within the epoch's first day.
Normalize(idx, activity) ==
    LET role == CASE activity.role = INT0 -> "bot"
                  [] activity.role = INT1 -> "user"
                  [] OTHER -> activity.role
        ts == activity.timestamp
        timestamp == IF ts.t = "num" /\ ts.n > 0 THEN JStr(EpochToIso(ts.n * 1000))
                     ELSE ts
        position == IF activity.position.t = "missing" THEN JNum(idx * 1000)
                    ELSE activity.position
        valueType == IF ~Truthy(activity.valueType) /\ Truthy(activity.name)
                     THEN activity.name ELSE activity.valueType
    IN  [activity EXCEPT !.role = role, !.timestamp = timestamp,
                         !.position = position, !.valueType = valueType]

RECURSIVE Metadata(_, _)
\* Step 5: the value of the last record of a kind, {} for a falsy value.
Metadata(normalized, kind) ==
    IF normalized = <<>> THEN MISSING
    ELSE LET last == normalized[Len(normalized)]
         IN  IF Get(last.valueType, <<>>) = <<kind>>
             THEN (IF Truthy(last.value) THEN last.value ELSE <<"{}">>)
             ELSE Metadata(SubSeq(normalized, 1, Len(normalized) - 1), kind)

ParseTranscriptJson(raw_activities) ==
    LET normalized == [k \in 1..Len(raw_activities) |->
                         Normalize(k - 1, raw_activities[k])]
    IN  [activities |-> normalized,
         metadata |-> [session_info |-> Metadata(normalized, "SessionInfo"),
                       conversation_info |->
                           Metadata(normalized, "ConversationInfo")]]

\* Raw records: roles as numbers and as strs, timestamps as epoch seconds, as
\* 0, as a str and absent, with and without a position of their own.
RawActivities ==
    {Raw(INT0, JNum(1), JAbsent, MISSING, <<"SessionInfo">>, <<"s1">>),
     Raw(INT1, JNum(3), JNum(5000), <<>>, MISSING, MISSING),
     Raw("bot", JStr(TS_1), JNum(0), <<"ConversationInfo">>, <<"x">>, NONE),
     Raw(INT2, JNum(0), JNum(1000), MISSING, MISSING, MISSING),
     Raw("<missing>", JAbsent, JAbsent, MISSING, NONE, <<"v">>),
     Raw("user", JNum(10), JNum(500), <<"SessionInfo">>, MISSING, <<"s2">>)}

\* "activities" arrays of up to two records, and one of three.
RawInputs ==
    {<<>>} \cup {<<x>> : x \in RawActivities}
           \cup {<<x, y>> : x \in RawActivities, y \in RawActivities}
           \cup {<<x, x, y>> : x \in {Raw("<missing>", JAbsent, JAbsent, MISSING,
                                          NONE, <<"v">>)},
                               y \in RawActivities}

(***************************************************************************)
(* Gantt chart: renderer.py, render_gantt_chart                            *)
(***************************************************************************)
IDLE_THRESHOLD_MS == 5000
IDLE_VISUAL_MS == 200
min_duration == 50

RECURSIVE ReplaceZ(_)
\* ts.replace("Z", "+00:00")
ReplaceZ(s) ==
    IF s = <<>> THEN <<>>
    ELSE (IF Head(s) = "Z" THEN <<"+", "0", "0", ":", "0", "0">> ELSE <<Head(s)>>)
           \o ReplaceZ(Tail(s))

\* datetime.fromisoformat(cleaned), made UTC when naive, for a str whose
\* offset, if it has one, is Z or +00:00 and whose fraction has at most 6
\* digits: the milliseconds since the epoch, NoInstant for ValueError.
IsoToMs(ts) ==
    IF ~Truthy(ts) THEN NoInstant
    ELSE LET cleaned == ReplaceZ(ts)
             n == Len(cleaned)
         IN  IF n >= 6 /\ SubSeq(cleaned, n - 5, n) = <<"+", "0", "0", ":", "0", "0">>
             THEN FromIsoformat(SubSeq(cleaned, 1, n - 6))
             ELSE FromIsoformat(cleaned)

RECURSIVE Pow2(_)
Pow2(n) == IF n = 0 THEN 1 ELSE 2 * Pow2(n - 1)

RECURSIVE Pow2Mod(_, _)
\* 2^n modulo m
Pow2Mod(n, m) == IF n = 0 THEN 1 % m ELSE (2 * Pow2Mod(n - 1, m)) % m

\* int(dt.timestamp() * 1000) for the instant N ms after the epoch, N within
\* the epoch's first day.  dt.timestamp() is the double nearest to N / 1000, the
\* product is rounded to a double again, and int() truncates: the result is
\* N - 1 when the first rounding went down by more than half of the spacing of
\* the doubles below N.  With 2^e <= N / 1000 < 2^(e+1), the first rounding is
\* decided by rem, the remainder of N * 2^(52-e) divided by 1000.
TimestampTimes1000(N) ==
    IF N = 0 THEN 0
    ELSE
      LET e1 == Max({k \in 0..27 : Pow2(k) <= N})
          e == IF e1 >= 9
               THEN (IF N >= 1000 * Pow2(e1 - 9) THEN e1 - 9 ELSE e1 - 10)
               ELSE (IF N * Pow2(9 - e1) >= 1000 THEN e1 - 9 ELSE e1 - 10)
          A == ((N % 2000) * Pow2Mod(52 - e, 2000)) % 2000
          rem == A % 1000
          down == rem < 500 \/ (rem = 500 /\ A < 1000)
          half == IF N = Pow2(e1) THEN Pow2(e1 - e - 1) \div 2
                  ELSE Pow2(e1 - e - 1)
      IN  IF down /\ rem > half THEN N - 1 ELSE N

\* _parse_timestamp_to_epoch_ms(ts); NoInstant is None.
ParseTimestampToEpochMs(ts) ==
    IF IsoToMs(ts) = NoInstant THEN NoInstant
    ELSE TimestampTimes1000(IsoToMs(ts))

\* _format_duration(ms) for a whole number of milliseconds that is no tie of
\* the rounding to a tenth of a second.
FormatDuration(ms) ==
    LET tenths(x) == NumStr(((x + 50) \div 100) \div 10) \o <<".">>
                       \o NumStr(((x + 50) \div 100) % 10) \o <<"s">>
    IN  IF ms < 1000 THEN NumStr(ms) \o <<"ms">>
        ELSE IF ms < 60000 THEN tenths(ms)
        ELSE NumStr(ms \div 60000) \o <<"m", " ">> \o tenths(ms % 60000)

\* _gantt_label(event)
GanttLabel(event) ==
    LET topic == IF Truthy(event.topic_name) THEN event.topic_name
                 ELSE <<"unknown">>
    IN  CASE event.event_type = "USER_MESSAGE" -> <<"User message">>
          [] event.event_type = "BOT_MESSAGE" -> <<"Agent response">>
          [] event.event_type = "PLAN_RECEIVED" -> <<"Plan received">>
          [] event.event_type = "PLAN_FINISHED" -> <<"Plan finished">>
          [] event.event_type = "STEP_TRIGGERED" -> <<"Step: ">> \o topic
          [] event.event_type = "STEP_FINISHED" -> <<"Done: ">> \o topic
          [] event.event_type = "KNOWLEDGE_SEARCH" -> <<"Knowledge search">>
          [] event.event_type = "ERROR" -> <<"Error: ">> \o Take(event.summary, 40)
          [] event.event_type = "ACTION_HTTP_REQUEST" -> <<"HTTP: ">> \o topic
          [] event.event_type = "ACTION_QA" -> <<"QA: ">> \o topic
          [] event.event_type = "ACTION_TRIGGER_EVAL" -> <<"Eval: ">> \o topic
          [] event.event_type = "ACTION_BEGIN_DIALOG" -> <<"Begin: ">> \o topic
          [] event.event_type = "ACTION_SEND_ACTIVITY" -> <<"Send: ">> \o topic
          [] event.event_type = "DIALOG_TRACING" -> <<"Dialog trace">>
          [] OTHER -> IF event.summary = <<>> THEN <<"Event">>
                      ELSE Take(event.summary, 40)

\* _gantt_section(event)
GanttSection(event) ==
    LET of_topic == IF Truthy(event.topic_name)
                    THEN <<"Topic - ">> \o event.topic_name ELSE <<"System">>
    IN  CASE event.event_type = "USER_MESSAGE" -> <<"User">>
          [] event.event_type = "BOT_MESSAGE" -> <<"Agent">>
          [] event.event_type \in {"PLAN_RECEIVED", "PLAN_RECEIVED_DEBUG",
                                   "PLAN_FINISHED"} -> <<"Orchestrator">>
          [] event.event_type = "KNOWLEDGE_SEARCH" -> <<"Knowledge Search">>
          [] event.event_type = "ERROR" -> <<"Errors">>
          [] event.event_type = "ACTION_HTTP_REQUEST" -> <<"Connectors">>
          [] event.event_type = "ACTION_QA" -> <<"QA Engine">>
          [] event.event_type = "ACTION_TRIGGER_EVAL" -> <<"Evaluator">>
          [] event.event_type = "ACTION_SEND_ACTIVITY" -> <<"Agent">>
          [] OTHER -> of_topic

\* _gantt_tag(event)
GanttTag(event) ==
    IF event.state = <<"failed">> \/ event.event_type = "ERROR" THEN "crit, "
    ELSE CASE event.event_type = "USER_MESSAGE" -> "active, "
           [] event.event_type \in {"BOT_MESSAGE", "ACTION_SEND_ACTIVITY"} -> "done, "
           [] event.event_type \in {"ACTION_HTTP_REQUEST", "ACTION_QA",
                                    "ACTION_TRIGGER_EVAL", "KNOWLEDGE_SEARCH"}
                -> "active, crit, "
           [] OTHER -> ""

RECURSIVE Timed(_)
\* Lines 603-607: the (epoch_ms, event) pairs of the events with a timestamp.
Timed(events) ==
    IF events = <<>> THEN <<>>
    ELSE LET ms == ParseTimestampToEpochMs(Head(events).timestamp)
         IN  (IF ms # NoInstant THEN <<[ms |-> ms, event |-> Head(events)]>>
              ELSE <<>>) \o Timed(Tail(events))

RECURSIVE InsertTimed(_, _)
InsertTimed(x, sorted) ==
    IF sorted = <<>> THEN <<x>>
    ELSE IF Head(sorted).ms >= x.ms THEN <<x>> \o sorted
    ELSE <<Head(sorted)>> \o InsertTimed(x, Tail(sorted))

RECURSIVE SortTimed(_)
\* timed.sort(key=lambda x: x[0]): list.sort is stable.
SortTimed(timed) ==
    IF timed = <<>> THEN <<>>
    ELSE InsertTimed(Head(timed), SortTimed(Tail(timed)))

RECURSIVE Dedupe(_, _)
\* Lines 615-622: a pair whose (label, epoch_ms) is that of the pair kept last
\* is skipped.
Dedupe(timed, prev_key) ==
    IF timed = <<>> THEN <<>>
    ELSE LET key == <<GanttLabel(Head(timed).event), Head(timed).ms>>
         IN  IF key # prev_key THEN <<Head(timed)>> \o Dedupe(Tail(timed), key)
             ELSE Dedupe(Tail(timed), prev_key)

\* The gap before the pair at index i >= 2 (the code's index i - 1).
Gap(timed, i) == timed[i].ms - timed[i - 1].ms

\* Line 663
Collapsed(gap) == gap > IDLE_THRESHOLD_MS

RECURSIVE IdleAdjustment(_, _)
\* idle_adjustments[i - 1], lines 658-667.
IdleAdjustment(timed, i) ==
    IF i = 1 THEN 0
    ELSE IdleAdjustment(timed, i - 1)
           + (IF Collapsed(Gap(timed, i))
              THEN Gap(timed, i) - min_duration - IDLE_VISUAL_MS ELSE 0)

\* A line of the chart: a section heading, an Idle marker or an event bar; id is
\* the number in the task id (idle{i}, e{i}).  Labels and sections are kept as
\* _gantt_label and _gantt_section give them, before _sanitize_mermaid.
GanttLine(kind, label, tag, id, start, end) ==
    [kind |-> kind, label |-> label, tag |-> tag, id |-> id,
     start |-> start, end |-> end]

RECURSIVE GanttLines(_, _, _)
\* Lines 671-706 from the pair at index i on.
GanttLines(timed, i, current_section) ==
    IF i > Len(timed) THEN <<>>
    ELSE
      LET event == timed[i].event
          epoch_offset == timed[1].ms
          start_rel == timed[i].ms - epoch_offset - IdleAdjustment(timed, i)
          next_start == timed[i + 1].ms - epoch_offset
                          - IdleAdjustment(timed, i + 1)
          end_rel == IF i < Len(timed) /\ Collapsed(Gap(timed, i + 1))
                     THEN start_rel + min_duration
                     ELSE IF i < Len(timed)
                     THEN Max({next_start, start_rel + min_duration})
                     ELSE start_rel + min_duration
          idle == i >= 2 /\ Collapsed(Gap(timed, i))
          idle_lines ==
              IF idle
              THEN (IF current_section # <<"Idle">>
                    THEN <<GanttLine("section", <<"Idle">>, "", 0, 0, 0)>>
                    ELSE <<>>)
                   \o <<GanttLine("idle",
                                  <<"Idle ">> \o FormatDuration(Gap(timed, i)),
                                  "done, crit, ", i - 1,
                                  start_rel - IDLE_VISUAL_MS, start_rel)>>
              ELSE <<>>
          after_idle == IF idle THEN <<"Idle">> ELSE current_section
          section == GanttSection(event)
          section_lines == IF section # after_idle
                           THEN <<GanttLine("section", section, "", 0, 0, 0)>>
                           ELSE <<>>
          bar == GanttLine("bar",
                           GanttLabel(event) \o <<" (">>
                             \o FormatDuration(end_rel - start_rel) \o <<")">>,
                           GanttTag(event), i - 1, start_rel, end_rel)
      IN  idle_lines \o section_lines \o <<bar>>
            \o GanttLines(timed, i + 1, section)

\* render_gantt_chart(timeline): the lines after the chart's fixed header,
\* <<>> for the empty string.
RenderGanttChart(events) ==
    LET timed == Dedupe(SortTimed(Timed(events)), <<<<>>, 0>>)
    IN  IF timed = <<>> THEN <<>> ELSE GanttLines(timed, 1, <<>>)

\* Events of the chart, at 0, 20, 3000, 5020, 8001, 10021 and 130021 ms (gaps of
\* 20, 5000, 5001 and 120000 ms among them), one without a timestamp and one
\* whose timestamp does not parse.
GanttEvent(event_type, hms, topic_name) ==
    [TimelineEvent(IF hms = <<>> THEN NONE ELSE Ts(hms), 0, event_type, <<"s">>)
       EXCEPT !.topic_name = topic_name]

GanttUser ==
    GanttEvent("USER_MESSAGE", <<"0", "0", ":", "0", "0", ":", "0", "0", "Z">>, NONE)
GanttStep ==
    GanttEvent("STEP_TRIGGERED",
               <<"0", "0", ":", "0", "0", ":", "0", "0", ".", "0", "2", "0", "Z">>,
               <<"Main">>)
GanttBot ==
    GanttEvent("BOT_MESSAGE",
               <<"0", "0", ":", "0", "0", ":", "0", "5", ".", "0", "2", "0", "Z">>,
               NONE)
GanttError ==
    GanttEvent("ERROR",
               <<"0", "0", ":", "0", "0", ":", "1", "0", ".", "0", "2", "1">>, NONE)
GanttDone ==
    GanttEvent("STEP_FINISHED",
               <<"0", "0", ":", "0", "2", ":", "1", "0", ".", "0", "2", "1",
                 "+", "0", "0", ":", "0", "0">>, <<"Main">>)

GanttEvents ==
    {GanttUser, GanttStep, GanttBot, GanttError, GanttDone,
     GanttEvent("KNOWLEDGE_SEARCH",
                <<"0", "0", ":", "0", "0", ":", "0", "3", ".", "0", "0", "0", "Z">>,
                NONE),
     GanttEvent("ACTION_HTTP_REQUEST",
                <<"0", "0", ":", "0", "0", ":", "0", "8", ".", "0", "0", "1", "Z">>,
                <<"Main">>),
     GanttEvent("PLAN_RECEIVED", <<>>, NONE),
     [GanttEvent("VARIABLE_ASSIGNMENT", <<>>, NONE) EXCEPT !.timestamp = TS_BAD]}

\* timeline.events: up to two events in any order, and longer lists that are
\* out of order and hold an event twice.
GanttInputs ==
    {<<>>} \cup {<<x>> : x \in GanttEvents}
           \cup {<<x, y>> : x \in GanttEvents, y \in GanttEvents}
           \cup {<<GanttError, GanttUser, GanttUser, GanttError, GanttDone>> \o rest :
                   rest \in {<<x, y>> : x \in GanttEvents, y \in {GanttBot}}}

(***************************************************************************)
(* Batch mode: main.py, analyse with --all                                 *)
(***************************************************************************)
\* The entries of the directory given as path are named 1..MaxEntries, and so
\* are the files of its Transcripts directory; sorted() puts names in
\* ascending order.
MaxEntries == 2

\* What an entry of path is: absent, a file, a directory without
\* botContent.yml, or an export folder: complete, without dialog.json
\* (_process_folder raises typer.Exit, a RuntimeError), or one whose parsing,
\* timeline or rendering raises an Exception.
EntryKinds == {"absent", "file", "plain", "ok", "no_dialog", "raises"}
ExportKinds == {"ok", "no_dialog", "raises"}

\* What an entry of Transcripts is: absent, a file that is not *.json, a
\* transcript that is processed, or one whose processing raises an Exception.
FileKinds == {"absent", "other", "ok", "raises"}
TranscriptKinds == {"ok", "raises"}

RECURSIVE SortedNames(_)
\* sorted(...) of a set of names
SortedNames(S) ==
    IF S = {} THEN <<>>
    ELSE LET n == Min(S) IN <<n>> \o SortedNames(S \ {n})

\* The run before analyse is called, and at its first line.
NoBatch ==
    [phase |-> "none", children |-> <<>>, transcripts_dir |-> FALSE,
     files |-> <<>>, queue |-> <<>>, attempted |-> <<>>, written |-> {},
     log |-> <<>>]

StartBatch(children, transcripts_dir, files) ==
    [NoBatch EXCEPT !.phase = "start", !.children = children,
                    !.transcripts_dir = transcripts_dir, !.files = files]

(***************************************************************************)
(* The web session: web/state.py, class State                              *)
(***************************************************************************)
\* The USERS environment variable as _load_users reads it: no pair, or the
\* pair admin:pw.
NoUsers == {}
OneUser == {[username |-> <<"admin">>, password |-> <<"pw">>]}

\* users.get(username): the password of the pair with that name, else None.
UsersGet(users, username) ==
    IF \E u \in users : u.username = username
    THEN (CHOOSE u \in users : u.username = username).password
    ELSE NONE

\* No run of handle_upload is suspended at its yield.
NoUpload == [n |-> 0, zip |-> FALSE, yaml |-> FALSE, json |-> FALSE, parses |-> FALSE]

\* Lines 47-61: the fields of a new State, with the environment it runs in
\* (USERS), the files of the handle_upload run suspended at its yield
\* (uploading) and the handler that returned last (done).
State ==
    [username |-> <<>>, password |-> <<>>, is_authenticated |-> FALSE,
     auth_error |-> <<>>, upload_type |-> "bot_zip", is_processing |-> FALSE,
     upload_error |-> <<>>, report_markdown |-> <<>>, report_title |-> <<>>,
     USERS |-> NoUsers, uploading |-> NoUpload, done |-> ""]

\* An upload of n files: zip says the file is a zip archive, yaml and json
\* that a botContent.yml / dialog.json (an upload of individual files: a name
\* ending in .yml or .yaml / in .json) is there, parses that parsing, building
\* and rendering raise nothing.
Files(n, zip, yaml, json, parses) ==
    [n |-> n, zip |-> zip, yaml |-> yaml, json |-> json, parses |-> parses]

\* upload_type_map.get(display_value, "bot_zip") of lines 73-78.
UploadTypeOf(display_value) ==
    CASE display_value = "Bot Export (.zip)" -> "bot_zip"
      [] display_value = "Bot Export (individual files)" -> "bot_files"
      [] display_value = "Transcript (.json)" -> "transcript"
      [] OTHER -> "bot_zip"

\* Lines 95-104.
Login(s) ==
    IF s.USERS = NoUsers
    THEN [s EXCEPT !.auth_error = <<"No users configured. Set USERS env var.">>]
    ELSE IF UsersGet(s.USERS, s.username) = s.password
    THEN [s EXCEPT !.is_authenticated = TRUE, !.auth_error = <<>>]
    ELSE [s EXCEPT !.auth_error = <<"Invalid username or password.">>]

\* Lines 106-115.
Logout(s) ==
    [s EXCEPT !.username = <<>>, !.password = <<>>, !.is_authenticated = FALSE,
              !.auth_error = <<>>, !.report_markdown = <<>>, !.report_title = <<>>,
              !.upload_error = <<>>, !.is_processing = FALSE]

\* Lines 243-246.
NewUpload(s) ==
    [s EXCEPT !.report_markdown = <<>>, !.report_title = <<>>, !.upload_error = <<>>]

\* How a _process_* method ends: the state it leaves, and whether it raised.
Returns(s) == [s |-> s, raised |-> FALSE]
Raises(s) == [s |-> s, raised |-> TRUE]
Rejects(s, message) == Returns([s EXCEPT !.upload_error = <<message>>])
Stores(s, markdown, title) ==
    Returns([s EXCEPT !.report_markdown = markdown, !.report_title = title])

\* What render_report and profile.display_name give for the uploaded export,
\* and render_transcript_report and json_path.stem for the uploaded transcript.
BotTitle == <<"Bot">>
BotReport == <<"# ", "Bot">>
TranscriptTitle == <<"transcript">>
TranscriptReport == <<"# ", "transcript">>

\* Lines 151-183.
ProcessBotZip(s, files) ==
    IF files.n # 1 THEN Rejects(s, "Upload exactly one .zip file.")
    ELSE IF ~files.zip THEN Rejects(s, "File is not a valid zip archive.")
    ELSE IF ~files.yaml THEN Rejects(s, "No botContent.yml found in zip.")
    ELSE IF ~files.json THEN Rejects(s, "No dialog.json found in zip.")
    ELSE IF ~files.parses THEN Raises(s)
    ELSE Stores(s, BotReport, BotTitle)

\* Lines 185-215.
ProcessBotFiles(s, files) ==
    IF files.n # 2
    THEN Rejects(s, "Upload exactly 2 files: botContent.yml and dialog.json.")
    ELSE IF ~files.yaml THEN Rejects(s, "No .yml file found. Upload botContent.yml.")
    ELSE IF ~files.json THEN Rejects(s, "No .json file found. Upload dialog.json.")
    ELSE IF ~files.parses THEN Raises(s)
    ELSE Stores(s, BotReport, BotTitle)

\* Lines 217-234: State._process_transcript.
StateProcessTranscript(s, files) ==
    IF files.n # 1 THEN Rejects(s, "Upload exactly one transcript .json file.")
    ELSE IF ~files.parses THEN Raises(s)
    ELSE Stores(s, TranscriptReport, TranscriptTitle)

\* Lines 127-134: handle_upload as far as its yield, or its early return.
HandleUploadStart(s, files) ==
    IF files.n = 0 THEN [s EXCEPT !.upload_error = <<"No files selected.">>]
    ELSE [s EXCEPT !.is_processing = TRUE, !.upload_error = <<>>,
                   !.uploading = files]

\* Lines 137-145: the body of the try.
Try(s, files) ==
    CASE s.upload_type = "bot_zip" -> ProcessBotZip(s, files)
      [] s.upload_type = "bot_files" -> ProcessBotFiles(s, files)
      [] s.upload_type = "transcript" -> StateProcessTranscript(s, files)
      [] OTHER -> Rejects(s, "Unknown upload type")

\* Lines 146-148: except Exception as e.
Except(r) ==
    IF r.raised THEN [r.s EXCEPT !.upload_error = <<"Processing failed: ", "boom">>]
    ELSE r.s

\* The handler without its finally clause.
NoFinally(s) == s

\* Lines 148-149: finally.
Finally(s) == [s EXCEPT !.is_processing = FALSE]

\* Lines 136-149: handle_upload from its yield to its end.
HandleUploadEnd(s) ==
    [Finally(Except(Try(s, s.uploading))) EXCEPT !.uploading = NoUpload]

MaxActs == 3
MaxStepActs == 3
MaxMetaActs == 3
MaxTraceActs == 3
MaxCalls == 2
MaxPairActs == 2
MaxErrorActs == 3

(***************************************************************************)
(* The calls of build_timeline                                             *)
(***************************************************************************)
Invocations == {1, 2}

\* Locals kept in one place for all calls (module-level state).
SharedFrame(k) == 1

\* The locals are created by the call (lines 94-104): each call has its own.
Frame(k) == k

VARIABLES
    activities,     \* the activities argument, as far as the first call has read it
    schema_lookup,  \* the schema_lookup argument
    frames,         \* the locals of every call
    pos,            \* how many activities each call has processed
    pc,             \* per call: "run", "done" (returned) or "raised"
    result,         \* per call: the ConversationTimeline it returned
    calls,          \* the calls of the helper functions made so far: what each
                    \* was given and what it returned
    batch,          \* main.py: the run of analyse --all
    session         \* web/state.py: the State of one web session

vars == <<activities, schema_lookup, frames, pos, pc, result, calls, batch, session>>

InitWith(lookups) ==
    /\ activities = <<>>
    /\ schema_lookup \in lookups
    /\ frames = [k \in Invocations |-> NewFrame]
    /\ pos = [k \in Invocations |-> 0]
    /\ pc = [k \in Invocations |-> "run"]
    /\ result = [k \in Invocations |-> ConversationTimeline(NewFrame, 0)]
    /\ calls = {}
    /\ batch = NoBatch
    /\ session = State

\* Call k runs the loop body on activity a.
Body(k, a) ==
    LET r == ProcessActivity(frames[Frame(k)], a, schema_lookup)
    IN  /\ pos' = [pos EXCEPT ![k] = @ + 1]
        /\ IF r.raised
           THEN pc' = [pc EXCEPT ![k] = "raised"] /\ UNCHANGED frames
           ELSE frames' = [frames EXCEPT ![Frame(k)] = r.b] /\ UNCHANGED pc
        /\ UNCHANGED <<schema_lookup, result, calls, batch, session>>

\* One iteration of `for activity in activities` in call k, on activity a.  The
\* first call reads a new activity of its argument; the list is in position
\* order (parse_dialog_json sorts it).  The second call reads the same list
\* behind the first.
Iterate(k, a, max) ==
    LET next == [a EXCEPT !.position = pos[k] + 1]
    IN  /\ pc[k] = "run"
        /\ IF pos[k] = Len(activities)
           THEN /\ k = 1
                /\ Len(activities) < max
                /\ activities' = Append(activities, next)
           ELSE /\ next = activities[pos[k] + 1]
                /\ UNCHANGED activities
        /\ Body(k, next)

\* Lines 389-399: the list is exhausted.
Return(k) ==
    /\ pc[k] = "run"
    /\ pos[k] = Len(activities)
    /\ k = 1 \/ pc[1] # "run"
    /\ LET b == frames[Frame(k)]
       IN  IF ReturnRaises(b)
           THEN pc' = [pc EXCEPT ![k] = "raised"] /\ UNCHANGED result
           ELSE /\ pc' = [pc EXCEPT ![k] = "done"]
                /\ result' = [result EXCEPT ![k] = ReturnValue(b)]
    /\ UNCHANGED <<activities, schema_lookup, frames, pos, calls, batch, session>>

Init == InitWith({EmptyLookup, MainLookup})
Next == (\E a \in Activities : Iterate(1, a, MaxActs)) \/ Return(1)
Spec == Init /\ [][Next]_vars

InitSteps == InitWith({MainLookup})
NextSteps == (\E a \in StepActivities : Iterate(1, a, MaxStepActs)) \/ Return(1)
SpecSteps == InitSteps /\ [][NextSteps]_vars

InitMeta == InitWith({EmptyLookup})
NextMeta == (\E a \in MetaActivities : Iterate(1, a, MaxMetaActs)) \/ Return(1)
SpecMeta == InitMeta /\ [][NextMeta]_vars

InitErrors == InitWith({MainLookup})
NextErrors == (\E a \in ErrorActivities : Iterate(1, a, MaxErrorActs)) \/ Return(1)
SpecErrors == InitErrors /\ [][NextErrors]_vars

InitTrace == InitWith({EmptyLookup, MainLookup})
NextTrace == (\E a \in TraceActivities : Iterate(1, a, MaxTraceActs)) \/ Return(1)
SpecTrace == InitTrace /\ [][NextTrace]_vars

\* The variables of the calls of build_timeline.
build == <<activities, schema_lookup, frames, pos, pc, result>>

\* A call of helper function fn on args that raised or returned ret.
Call(fn, args, raised, ret) ==
    [fn |-> fn, args |-> args, raised |-> raised, ret |-> ret]

ParseTimestampCall(ts) ==
    /\ Cardinality(calls) < MaxCalls
    /\ calls' = calls \cup
         {Call("_parse_timestamp", <<ts>>, ParseRaises(ts),
               IF ParseRaises(ts) THEN NoInstant ELSE ParseTimestamp(ts))}
    /\ UNCHANGED <<build, batch, session>>

MsBetweenCall(start, end) ==
    /\ Cardinality(calls) < MaxCalls
    /\ calls' = calls \cup
         {Call("_ms_between", <<start, end>>, MsBetweenRaises(start, end),
               IF MsBetweenRaises(start, end) THEN 0 ELSE MsBetween(start, end))}
    /\ UNCHANGED <<build, batch, session>>

\* The timestamp parse_transcript_json leaves in a record whose timestamp is the
\* number secs of epoch seconds.
NormalizedTimestamp(secs) ==
    Normalize(0, Raw(INT1, JNum(secs), JAbsent, <<>>, <<>>, <<"v">>)).timestamp.s

\* Two timestamps handed to the core: each one parsed, and their _ms_between.
HandOff(start, end) ==
    [start |-> ParseTimestamp(start), end |-> ParseTimestamp(end),
     duration |-> MsBetween(start, end)]

\* Epoch values within the epoch's first day: whole seconds whose last digit is
\* and is not 0, whole minutes and hours, and milliseconds with a fraction.
EpochSeconds == {1, 3, 10, 59, 60, 3600}
EpochMillis == {1000, 2500, 3000, 10000, 10500, 60000}

TranscriptHandOffCall(start, end) ==
    /\ Cardinality(calls) < MaxCalls
    /\ calls' = calls \cup
         {Call("parse_transcript_json", <<start, end>>, FALSE,
               HandOff(NormalizedTimestamp(start), NormalizedTimestamp(end)))}
    /\ UNCHANGED <<build, batch, session>>

EpochToIsoHandOffCall(start, end) ==
    /\ Cardinality(calls) < MaxCalls
    /\ calls' = calls \cup
         {Call("_epoch_to_iso", <<start, end>>, FALSE,
               HandOff(EpochToIso(start), EpochToIso(end)))}
    /\ UNCHANGED <<build, batch, session>>

InitEpoch == InitWith({EmptyLookup})
NextEpoch ==
    \/ \E start \in EpochSeconds, end \in EpochSeconds : TranscriptHandOffCall(start, end)
    \/ \E start \in EpochMillis, end \in EpochMillis : EpochToIsoHandOffCall(start, end)
SpecEpoch == InitEpoch /\ [][NextEpoch]_vars

InitParse == InitWith({EmptyLookup})
NextParse ==
    \/ \E ts \in ParseInputs : ParseTimestampCall(ts)
    \/ \E start \in {TS_1, TS_10, NONE, NUM}, end \in {TS_3, TS_BAD, NUM} :
          MsBetweenCall(start, end)
SpecParse == InitParse /\ [][NextParse]_vars

ExtractCardTextCall(attachments) ==
    /\ Cardinality(calls) < MaxCalls
    /\ calls' = calls \cup
         {Call("_extract_adaptive_card_text", <<attachments>>, FALSE,
               ExtractAdaptiveCardText(attachments))}
    /\ UNCHANGED <<build, batch, session>>

InitCard == InitWith({EmptyLookup})
NextCard == \E attachments \in CardInputs : ExtractCardTextCall(attachments)
SpecCard == InitCard /\ [][NextCard]_vars

ResolveTopicNameCall(schema_name, lookup) ==
    /\ Cardinality(calls) < MaxCalls
    /\ calls' = calls \cup
         {Call("resolve_topic_name", <<schema_name, lookup>>, FALSE,
               ResolveTopicName(schema_name, lookup))}
    /\ UNCHANGED <<build, batch, session>>

InitResolve == InitWith({EmptyLookup})
NextResolve ==
    \E schema_name \in SchemaNames, lookup \in Lookups :
       ResolveTopicNameCall(schema_name, lookup)
SpecResolve == InitResolve /\ [][NextResolve]_vars

ParseDialogJsonCall(acts) ==
    /\ Cardinality(calls) < MaxCalls
    /\ calls' = calls \cup
         {Call("parse_dialog_json", <<acts>>, FALSE, ParseDialogJson(acts))}
    /\ UNCHANGED <<build, batch, session>>

ParseTranscriptJsonCall(raw_activities) ==
    /\ Cardinality(calls) < MaxCalls
    /\ calls' = calls \cup
         {Call("parse_transcript_json", <<raw_activities>>, FALSE,
               ParseTranscriptJson(raw_activities))}
    /\ UNCHANGED <<build, batch, session>>

InitUpstream == InitWith({EmptyLookup})
NextUpstream ==
    \/ \E acts \in RawInputs : ParseDialogJsonCall(acts)
    \/ \E raw_activities \in RawInputs : ParseTranscriptJsonCall(raw_activities)
SpecUpstream == InitUpstream /\ [][NextUpstream]_vars

others == <<activities, schema_lookup, frames, pos, pc, result, calls, session>>

\* Lines 89-96: the export folders are discovered; none is an error and exit 1.
Discover ==
    LET folders == SortedNames({n \in DOMAIN batch.children :
                                   batch.children[n] \in ExportKinds})
    IN  /\ batch.phase = "start"
        /\ batch' = IF folders = <<>>
                    THEN [batch EXCEPT !.phase = "exit",
                             !.log = Append(@, "No bot export folders found")]
                    ELSE [batch EXCEPT !.phase = "folders", !.queue = folders,
                             !.log = Append(@, "Found bot export folders")]
        /\ UNCHANGED others

\* Lines 97-101: one turn of the loop over the folders.  Every failure of
\* _process_folder is an Exception and is caught.
ProcessFolder ==
    /\ batch.phase = "folders" /\ batch.queue # <<>>
    /\ LET folder == Head(batch.queue)
           item == <<"folder", folder>>
       IN  batch' = IF batch.children[folder] = "ok"
                    THEN [batch EXCEPT !.queue = Tail(@),
                             !.attempted = Append(@, item),
                             !.written = @ \cup {item}]
                    ELSE [batch EXCEPT !.queue = Tail(@),
                             !.attempted = Append(@, item),
                             !.log = Append(@, "Failed to process")]
    /\ UNCHANGED others

\* Lines 103-108 and 115: after the last folder the transcripts are listed;
\* without any the run is done.
ListTranscripts ==
    LET transcript_files == SortedNames({n \in DOMAIN batch.files :
                                            batch.files[n] \in TranscriptKinds})
    IN  /\ batch.phase = "folders" /\ batch.queue = <<>>
        /\ batch' = IF batch.transcripts_dir /\ transcript_files # <<>>
                    THEN [batch EXCEPT !.phase = "transcripts",
                             !.queue = transcript_files,
                             !.log = Append(@, "Found transcript files")]
                    ELSE [batch EXCEPT !.phase = "done",
                             !.log = Append(@, "All done.")]
        /\ UNCHANGED others

\* Lines 109-113: one turn of the loop over the transcript files.
ProcessTranscript ==
    /\ batch.phase = "transcripts" /\ batch.queue # <<>>
    /\ LET tf == Head(batch.queue)
           item == <<"transcript", tf>>
       IN  batch' = IF batch.files[tf] = "ok"
                    THEN [batch EXCEPT !.queue = Tail(@),
                             !.attempted = Append(@, item),
                             !.written = @ \cup {item}]
                    ELSE [batch EXCEPT !.queue = Tail(@),
                             !.attempted = Append(@, item),
                             !.log = Append(@, "Failed to process transcript")]
    /\ UNCHANGED others

\* Line 115, after the last transcript
EndBatch ==
    /\ batch.phase = "transcripts" /\ batch.queue = <<>>
    /\ batch' = [batch EXCEPT !.phase = "done", !.log = Append(@, "All done.")]
    /\ UNCHANGED others

InitBatch ==
    /\ activities = <<>>
    /\ schema_lookup = EmptyLookup
    /\ frames = [k \in Invocations |-> NewFrame]
    /\ pos = [k \in Invocations |-> 0]
    /\ pc = [k \in Invocations |-> "run"]
    /\ result = [k \in Invocations |-> ConversationTimeline(NewFrame, 0)]
    /\ calls = {}
    /\ session = State
    /\ batch \in {StartBatch(children, transcripts_dir, files) :
                    children \in [1..MaxEntries -> EntryKinds],
                    transcripts_dir \in BOOLEAN,
                    files \in [1..MaxEntries -> FileKinds]}
NextBatch ==
    Discover \/ ProcessFolder \/ ListTranscripts \/ ProcessTranscript \/ EndBatch
SpecBatch == InitBatch /\ [][NextBatch]_vars

(***************************************************************************)
(* The handlers of the web session                                         *)
(***************************************************************************)
\* The events of one session are processed one at a time: no handler starts
\* while a run of handle_upload is suspended at its yield.  check_auth,
\* check_already_authed and download_report assign no field.
Idle == session.uploading = NoUpload

\* Lines 64-66.
SetUsername(value) ==
    /\ Idle
    /\ session' = [session EXCEPT !.username = value, !.done = "set_username"]
    /\ UNCHANGED <<build, calls, batch>>

\* Lines 68-70.
SetPassword(value) ==
    /\ Idle
    /\ session' = [session EXCEPT !.password = value, !.done = "set_password"]
    /\ UNCHANGED <<build, calls, batch>>

\* Lines 72-79.
SetUploadType(display_value) ==
    /\ Idle
    /\ session' = [session EXCEPT !.upload_type = UploadTypeOf(display_value),
                                  !.done = "set_upload_type"]
    /\ UNCHANGED <<build, calls, batch>>

LoginHandler ==
    /\ Idle
    /\ session' = [Login(session) EXCEPT !.done = "login"]
    /\ UNCHANGED <<build, calls, batch>>

LogoutHandler ==
    /\ Idle
    /\ session' = [Logout(session) EXCEPT !.done = "logout"]
    /\ UNCHANGED <<build, calls, batch>>

NewUploadHandler ==
    /\ Idle
    /\ session' = [NewUpload(session) EXCEPT !.done = "new_upload"]
    /\ UNCHANGED <<build, calls, batch>>

\* handle_upload is called with files: it returns at once (no file) or runs to
\* its yield.
HandleUpload(files) ==
    /\ Idle
    /\ session' = [HandleUploadStart(session, files) EXCEPT
                     !.done = IF files.n = 0 THEN "handle_upload" ELSE "yield"]
    /\ UNCHANGED <<build, calls, batch>>

\* handle_upload goes on from its yield to its end.
HandleUploadResume ==
    /\ ~Idle
    /\ session' = [HandleUploadEnd(session) EXCEPT !.done = "handle_upload"]
    /\ UNCHANGED <<build, calls, batch>>

Usernames == {<<"admin">>, <<"eve">>}
Passwords == {<<"pw">>}
DisplayValues == {"Bot Export (.zip)", "Bot Export (individual files)",
                  "Transcript (.json)"}
Uploads == {Files(n, zip, yaml, json, parses) :
              n \in 0..2, zip \in BOOLEAN, yaml \in BOOLEAN, json \in BOOLEAN,
              parses \in BOOLEAN}

InitWeb ==
    /\ activities = <<>>
    /\ schema_lookup = EmptyLookup
    /\ frames = [k \in Invocations |-> NewFrame]
    /\ pos = [k \in Invocations |-> 0]
    /\ pc = [k \in Invocations |-> "run"]
    /\ result = [k \in Invocations |-> ConversationTimeline(NewFrame, 0)]
    /\ calls = {}
    /\ batch = NoBatch
    /\ session \in {[State EXCEPT !.USERS = users] : users \in {NoUsers, OneUser}}
NextWeb ==
    \/ \E value \in Usernames : SetUsername(value)
    \/ \E value \in Passwords : SetPassword(value)
    \/ \E display_value \in DisplayValues : SetUploadType(display_value)
    \/ LoginHandler
    \/ LogoutHandler
    \/ NewUploadHandler
    \/ \E files \in Uploads : HandleUpload(files)
    \/ HandleUploadResume
SpecWeb == InitWeb /\ [][NextWeb]_vars

RenderGanttChartCall(events) ==
    /\ Cardinality(calls) < MaxCalls
    /\ calls' = calls \cup
         {Call("render_gantt_chart", <<events>>, FALSE, RenderGanttChart(events))}
    /\ UNCHANGED <<build, batch, session>>

InitGantt == InitWith({EmptyLookup})
NextGantt == \E events \in GanttInputs : RenderGanttChartCall(events)
SpecGantt == InitGantt /\ [][NextGantt]_vars

InitPair == InitWith({EmptyLookup})
NextPair ==
    \/ \E k \in Invocations, a \in PairActivities : Iterate(k, a, MaxPairActs)
    \/ \E k \in Invocations : Return(k)
SpecPair == InitPair /\ [][NextPair]_vars

(***************************************************************************)
(* Properties of build_timeline                                            *)
(***************************************************************************)
\* The locals of the first call, and the activity its latest iteration read.
Locals == frames[Frame(1)]

IsFinish(a) == a.type = "event" /\ a.valueType = "DynamicPlanStepFinished"
IsTracing(a) == a.type = "event" /\ a.valueType = "DialogTracingInfo"

\* The events the locals hold for the activity at index j of the input.
EventsOf(j) == SelectSeq(Locals.events, LAMBDA e : e.position = j)

\* The instant a timestamp of the inputs denotes, in milliseconds of its day.
Instant(ts) ==
    CASE ts = TS_1 -> 1000 [] ts = TS_2_5 -> 2500 [] ts = TS_3 -> 3000
      [] ts = TS_10 -> 10000

\* C1: build_timeline never raises, however malformed the records are: the pass
\* goes on until a ConversationTimeline is returned.
C1_NeverRaises == pc[1] # "raised"

\* An iteration of the first call that read an activity.
Iterated == pos'[1] = pos[1] + 1

\* C2: a step-finished record whose state is "failed" or which carries a
\* non-empty error object appends exactly one string to errors (one when both
\* hold), and a dialog-tracing record appends exactly one string per sub-action
\* with a non-empty exception.
C2_OneErrorPerFailure ==
    [][Iterated =>
        LET a == activities'[pos'[1]]
            before == Locals.errors
            after == Locals'.errors
        IN  /\ IsFinish(a) /\ (a.value.state = Failed \/ IsErrorObject(a.value.error))
                 => Len(after) = Len(before) + 1 /\ SubSeq(after, 1, Len(before)) = before
            /\ IsTracing(a)
                 => Len(after) = Len(before)
                      + Cardinality({k \in 1..Len(a.value.actions.v) :
                                       Truthy(a.value.actions.v[k].exception)})]_vars

\* A failed step that also carries an error object left one string, and a
\* tracing record with two failing sub-actions out of three left two more.
C2_Witness ==
    /\ pos[1] = 2
    /\ activities[1] = [Finish(S1, TS_3, Failed, ErrorWith(<<"boom">>))
                          EXCEPT !.position = 1]
    /\ IsTracing(activities[2]) /\ Len(activities[2].value.actions.v) = 3
    /\ Len(Locals.errors) = 3

\* C3: every ExecutionPhase of the returned timeline has duration_ms >= 0.
C3_DurationsNonNegative ==
    pc[1] = "done" =>
      \A j \in 1..Len(result[1].phases) : result[1].phases[j].duration_ms >= 0

\* C4: a DialogTracingInfo record with n sub-actions yields n events, one per
\* sub-action in order, of the type mapped from the sub-action's actionType.
C4_OneEventPerSubAction ==
    \A j \in 1..pos[1] :
      LET a == activities[j]
          actions == a.value.actions.v
          mapped(t) ==
              CASE t = <<"HttpRequestAction">> -> "ACTION_HTTP_REQUEST"
                [] t = <<"BeginDialog">> -> "ACTION_BEGIN_DIALOG"
                [] t = <<"SendActivity">> -> "ACTION_SEND_ACTIVITY"
                [] t = <<"ConditionGroup">> -> "ACTION_TRIGGER_EVAL"
                [] OTHER -> "DIALOG_TRACING"
      IN  IsTracing(a) /\ pc[1] # "raised" =>
            /\ Len(EventsOf(j)) = Len(actions)
            /\ \A k \in 1..Len(actions) :
                  EventsOf(j)[k].event_type = mapped(actions[k].actionType)

\* C5: a step-finished record for step s at t2, state "completed", no error
\* object, read after a trigger for s at t1, appends exactly one phase with
\* start t1, end t2, duration t2 - t1 and state "completed", and no error.
C5_PairedStepDuration ==
    [][Iterated =>
        LET a == activities'[pos'[1]]
            s == a.value.stepId
            t1 == Locals.step_triggers[s]
            t2 == a.timestamp
        IN  /\ IsFinish(a) /\ a.value.state = Completed
            /\ ~IsErrorObject(a.value.error)
            /\ s \in DOMAIN Locals.step_triggers /\ Truthy(t2)
            => /\ Locals'.phases =
                    Append(Locals.phases,
                           ExecutionPhase(ResolveTopicName(a.value.taskDialogId,
                                                           schema_lookup),
                                          Get(a.value.type, <<>>), t1, t2,
                                          Instant(t2) - Instant(t1),
                                          Completed))
               /\ Locals'.errors = Locals.errors]_vars

\* C6: a step-finished record whose step id has no recorded trigger appends
\* exactly one phase, with duration 0 and the record's state; one error string
\* when the state is "failed"; and the pass goes on.
C6_UnmatchedFinish ==
    [][Iterated =>
        LET a == activities'[pos'[1]]
        IN  IsFinish(a) /\ a.value.stepId \notin DOMAIN Locals.step_triggers
            => /\ Len(Locals'.phases) = Len(Locals.phases) + 1
               /\ SubSeq(Locals'.phases, 1, Len(Locals.phases)) = Locals.phases
               /\ Locals'.phases[Len(Locals'.phases)].duration_ms = 0
               /\ Locals'.phases[Len(Locals'.phases)].state = a.value.state
               /\ a.value.state = Failed
                    => Len(Locals'.errors) = Len(Locals.errors) + 1
               /\ pc'[1] = "run"]_vars

\* A failed finish of s1 was read after a trigger of s2 only, and a matched
\* finish of s2 after it.
C6_Witness ==
    /\ pos[1] = 3
    /\ pc[1] = "run"
    /\ activities[1] = [Trigger(S2, TS_1) EXCEPT !.position = 1]
    /\ activities[2] = [Finish(S1, TS_3, Failed, NoError) EXCEPT !.position = 2]
    /\ activities[3] = [Finish(S2, TS_3, Completed, NoError) EXCEPT !.position = 3]
    /\ Len(Locals.phases) = 2
    /\ Locals.phases[1].duration_ms = 0 /\ Locals.phases[1].state = Failed
    /\ Locals.phases[2].duration_ms = 2000
    /\ Len(Locals.errors) = 1

\* The first qualifying value of a list of activities, "" when there is none.
FirstBotName(seq) ==
    LET q == {j \in 1..Len(seq) : /\ seq[j].from.t = "dict"
                                  /\ seq[j].from.role = "bot"
                                  /\ Truthy(seq[j].from.name)}
    IN  IF q = {} THEN <<>> ELSE seq[Min(q)].from.name

FirstConversationId(seq) ==
    LET q == {j \in 1..Len(seq) : Truthy(seq[j].conv_id)}
    IN  IF q = {} THEN <<>> ELSE seq[Min(q)].conv_id

FirstUserText(seq) ==
    LET q == {j \in 1..Len(seq) : /\ seq[j].type = "message"
                                  /\ seq[j].from.t = "dict"
                                  /\ seq[j].from.role = "user"
                                  /\ Truthy(seq[j].text)}
    IN  IF q = {} THEN <<>> ELSE seq[Min(q)].text

\* C7: bot_name, conversation_id and user_query are the first qualifying values
\* in input order, after every activity and in the returned timeline: a later
\* activity never overwrites one.
C7_FirstWriteWins ==
    LET seen == SubSeq(activities, 1, pos[1])
    IN  /\ Locals.bot_name = FirstBotName(seen)
        /\ Locals.conversation_id = FirstConversationId(seen)
        /\ Locals.user_query = FirstUserText(seen)
        /\ pc[1] = "done" =>
             /\ result[1].bot_name = FirstBotName(activities)
             /\ result[1].conversation_id = FirstConversationId(activities)
             /\ result[1].user_query = FirstUserText(activities)

\* A conversation id and two named bots were read, and the call
\* returned the first of each.
C7_Witness ==
    /\ pc[1] = "done"
    /\ Len(activities) = 3
    /\ activities[1].conv_id = C1Id
    /\ activities[2].from = BotA
    /\ activities[3].from = BotB
    /\ result[1].bot_name = <<"BotA">>
    /\ result[1].conversation_id = C1Id

\* C8: total_elapsed_ms is the time between the first and the last activity
\* whose timestamp parses, and 0 when fewer than two do.
C8_ElapsedBetweenParsed ==
    pc[1] = "done" =>
      LET at(j) == ParseTimestamp(GetTimestamp(activities[j]))
          parsed == {j \in 1..Len(activities) : at(j) # NoInstant}
      IN  result[1].total_elapsed_ms =
            IF Cardinality(parsed) < 2 THEN 0
            ELSE at(Max(parsed)) - at(Min(parsed))

\* C9: two calls on the same arguments end alike: both raise or both return the
\* same ConversationTimeline, however their iterations interleave.
C9_SameInputSameOutput ==
    pc[1] # "run" /\ pc[2] # "run" => pc[1] = pc[2] /\ result[1] = result[2]

\* Both calls returned a timeline with a phase and an error.
C9_Witness ==
    /\ pc[1] = "done" /\ pc[2] = "done"
    /\ Len(result[2].phases) = 1 /\ Len(result[2].errors) = 1
    /\ result[2].phases[1].duration_ms = 2000

\* C10: an activity of type "event" whose value type is not a recognized one
\* yields a fallback event of type OTHER that carries the raw tag.
C10_FallbackEvent ==
    \A j \in 1..pos[1] :
      LET a == activities[j]
          value_type == IF a.valueType # "" THEN a.valueType ELSE a.name
      IN  /\ a.type = "event" /\ pc[1] # "raised"
          /\ value_type \notin {"DynamicPlanReceived", "DynamicPlanReceivedDebug",
                                "DynamicPlanStepTriggered", "DynamicPlanStepFinished",
                                "DynamicPlanFinished", "DialogTracingInfo",
                                "UniversalSearchToolTraceData", "ErrorCode"}
          => /\ Len(EventsOf(j)) = 1
             /\ EventsOf(j)[1].event_type = "OTHER"
             /\ EventsOf(j)[1].raw_type = Str(value_type)

\* The sender role build_timeline reads from an activity (lines 109-110).
RoleOf(a) == IF a.from.t = "dict" THEN a.from.role ELSE ""

\* The activity at index j went through the loop body without raising.
Passed(j) == j < pos[1] \/ (j = pos[1] /\ pc[1] # "raised")

\* C11: every message activity yields exactly one event: USER_MESSAGE when the
\* sender role is "user", BOT_MESSAGE for any other role, empty or missing.
C11_OneEventPerMessage ==
    \A j \in 1..pos[1] :
      LET a == activities[j]
      IN  a.type = "message" /\ Passed(j) =>
            /\ Len(EventsOf(j)) = 1
            /\ EventsOf(j)[1].event_type =
                 IF RoleOf(a) = "user" THEN "USER_MESSAGE" ELSE "BOT_MESSAGE"

\* The action types that have an event type of their own (EventType, models.py
\* lines 78-82).
MappedActionTypes ==
    {<<"HttpRequestAction">>, <<"BeginDialog">>, <<"SendActivity">>,
     <<"ConditionGroup">>}

\* C12: every sub-action of a DialogTracingInfo record whose actionType is not a
\* mapped one yields a DIALOG_TRACING event of its own whose summary contains
\* the raw actionType, whatever the number and place of such sub-actions.
C12_UnmappedActionFallback ==
    \A j \in 1..pos[1] :
      LET a == activities[j]
          actions == a.value.actions.v
          unmapped == SelectSeq(actions,
                                LAMBDA x : /\ Truthy(x.actionType)
                                           /\ x.actionType \notin MappedActionTypes)
          generic == SelectSeq(EventsOf(j),
                               LAMBDA e : e.event_type = "DIALOG_TRACING")
      IN  IsTracing(a) /\ Passed(j) =>
            /\ Len(generic) >= Len(unmapped)
            /\ \A k \in 1..Len(unmapped) :
                  k <= Len(generic) =>
                    \E c \in 1..Len(generic[k].summary) :
                       <<generic[k].summary[c]>> = unmapped[k].actionType

\* C13: the summary of every TimelineEvent, of every event type, contains no
\* newline character.
C13_SingleLineSummaries ==
    \A k \in 1..Len(Locals.events) : ~Contains(Locals.events[k].summary, "\n")

IsPrefix(s, t) == Len(s) <= Len(t) /\ SubSeq(t, 1, Len(s)) = s

\* C14: events, phases and errors are append-only during the pass: after each
\* step the old contents are a prefix of the new ones, every new event belongs
\* to the activity just read (so events are in input order), a phase is added
\* only by a finish record, and the returned timeline holds the lists as built.
C14_AppendOnly ==
    [][/\ IsPrefix(Locals.events, Locals'.events)
       /\ IsPrefix(Locals.phases, Locals'.phases)
       /\ IsPrefix(Locals.errors, Locals'.errors)
       /\ \A k \in (Len(Locals.events) + 1)..Len(Locals'.events) :
             Iterated /\ Locals'.events[k].position = pos'[1]
       /\ Len(Locals'.phases) > Len(Locals.phases)
            => /\ Iterated /\ IsFinish(activities'[pos'[1]])
               /\ Len(Locals'.phases) = Len(Locals.phases) + 1
       /\ pc'[1] = "done"
            => /\ result'[1].events = Locals.events
               /\ result'[1].phases = Locals.phases
               /\ result'[1].errors = Locals.errors]_vars

\* Three activities left three events, two phases and two errors, in input
\* order, and the call returned them.
C14_Witness ==
    /\ pc[1] = "done"
    /\ Len(result[1].events) = 3
    /\ Len(result[1].phases) = 2
    /\ Len(result[1].errors) = 2
    /\ \A k \in 1..3 : result[1].events[k].position = k
    /\ result[1].phases[1].state = Completed
    /\ result[1].phases[2].state = Failed

\* C15: for a well-formed timestamp T without a zone suffix, _parse_timestamp
\* returns the instant T denotes for T, for T + "Z" and for T + "+00:00".
C15_SuffixRemovedExactly ==
    \A c \in calls : \A w \in WellFormed : \A suffix \in Suffixes :
       c.fn = "_parse_timestamp" /\ c.args = <<Stamp(w, suffix)>>
         => ~c.raised /\ c.ret = w.ms

\* C16: _parse_timestamp returns None and never raises on a malformed input, a
\* number included; _ms_between never raises and returns 0 when an argument is
\* malformed.
C16_MalformedIsNone ==
    \A c \in calls :
       /\ ~c.raised
       /\ c.fn = "_parse_timestamp" /\ c.args[1] \in Malformed => c.ret = NoInstant
       /\ c.fn = "_ms_between" /\ (c.args[1] \in Malformed \/ c.args[2] \in Malformed)
            => c.ret = 0

RECURSIVE RunLoop(_, _, _)
\* Lines 106-387 on a whole list: the locals after the loop, or that it raised.
RunLoop(b, acts, lookup) ==
    IF acts = <<>> THEN [raised |-> FALSE, b |-> b]
    ELSE LET r == ProcessActivity(b, Head(acts), lookup)
         IN  IF r.raised THEN r ELSE RunLoop(r.b, Tail(acts), lookup)

\* build_timeline(acts, lookup) for a list on which it does not raise.
BuildTimeline(acts, lookup) == ReturnValue(RunLoop(NewFrame, acts, lookup).b)

WithoutTyping(acts) == SelectSeq(acts, LAMBDA a : a.type # "typing")

\* C17: the timeline built from a list equals, in every field, the timeline
\* built from the list with its typing activities removed.
C17_TypingIgnored ==
    pc[1] = "done" =>
      result[1] = BuildTimeline(WithoutTyping(activities), schema_lookup)

RECURSIVE PreOrderTexts(_)
\* The non-empty TextBlock texts of a list of elements in a depth-first walk:
\* an element before its items, columns and body children.
PreOrderTexts(elements) ==
    IF elements = <<>> THEN <<>>
    ELSE LET el == Head(elements)
         IN  (IF el.type = "TextBlock" /\ Truthy(el.text) THEN <<el.text>> ELSE <<>>)
               \o PreOrderTexts(el.items) \o PreOrderTexts(el.columns)
               \o PreOrderTexts(el.body) \o PreOrderTexts(Tail(elements))

RECURSIVE CardTexts(_)
\* The same over the attachments in order.
CardTexts(attachments) ==
    IF attachments = <<>> THEN <<>>
    ELSE PreOrderTexts(Head(attachments)) \o CardTexts(Tail(attachments))

\* C18: _extract_adaptive_card_text returns the first two non-empty TextBlock
\* texts of a depth-first walk joined by " | ", cut to 150 characters plus "..."
\* when longer, and "[Adaptive Card]" only when there is no such text.
C18_CardText ==
    \A c \in calls :
       c.fn = "_extract_adaptive_card_text" =>
         LET found == CardTexts(c.args[1])
             combined == Join(Take(found, 2), <<" ", "|", " ">>)
         IN  /\ ~c.raised
             /\ c.ret = IF found = <<>> THEN <<"[Adaptive Card]">>
                        ELSE IF Len(combined) > 150
                             THEN SubSeq(combined, 1, 150) \o <<".", ".", ".">>
                        ELSE combined

\* The calls made: a card with three texts, one of them nested, gave the first
\* two; a card whose joined texts have 151 characters was cut.
C18_Witness ==
    /\ Call("_extract_adaptive_card_text", <<CardOfTwo>>, FALSE,
            <<"a", " ", "|", " ", "b">>) \in calls
    /\ \E c \in calls :
          /\ c.args = <<<<<<TextBlock(Long(100)), TextBlock(Long(48))>>>>>>
          /\ Len(c.ret) = 153

RECURSIVE Split(_)
\* The dot-separated segments of a name, in order.
Split(s) ==
    IF Contains(s, ".")
    THEN LET k == Min({j \in 1..Len(s) : s[j] = "."})
         IN  <<SubSeq(s, 1, k - 1)>> \o Split(SubSeq(s, k + 1, Len(s)))
    ELSE <<s>>

\* C19: resolve_topic_name returns, without raising, lookup[schema_name] when
\* the key is present, else the last dot-separated segment when there are at
\* least two segments, else schema_name unchanged.
C19_ResolveTopicName ==
    \A c \in calls :
       c.fn = "resolve_topic_name" =>
         LET schema_name == c.args[1]
             lookup == c.args[2]
             parts == Split(schema_name)
         IN  /\ ~c.raised
             /\ c.ret = IF schema_name \in DOMAIN lookup THEN lookup[schema_name]
                        ELSE IF Len(parts) >= 2 THEN parts[Len(parts)]
                        ELSE schema_name

\* The calls made: "a.b.C" with an empty lookup gave "C", and with a lookup that
\* has the key gave its display name.
C19_Witness ==
    /\ Call("resolve_topic_name", <<<<"a", ".", "b", ".", "C">>, EmptyLookup>>,
            FALSE, <<"C">>) \in calls
    /\ \E c \in calls :
          /\ c.args[1] = <<"a", ".", "b", ".", "C">>
          /\ c.args[1] \in DOMAIN c.args[2]
          /\ c.ret = <<"Display">>

\* The positions of a list are in non-decreasing order, a missing one being 0.
NonDecreasing(acts) ==
    \A i, j \in 1..Len(acts) :
       i < j => GetPosition(acts[i]) <= GetPosition(acts[j])

\* One list holds the records of the other, each as many times.
IsPermutation(s, t) ==
    /\ Len(s) = Len(t)
    /\ \A x \in {s[k] : k \in 1..Len(s)} \cup {t[k] : k \in 1..Len(t)} :
          Cardinality({k \in 1..Len(s) : s[k] = x})
            = Cardinality({k \in 1..Len(t) : t[k] = x})

\* C20: parse_dialog_json returns a permutation of its input in non-decreasing
\* position order, and the list parse_transcript_json returns is non-decreasing
\* in the positions its activities carry after normalization.
C20_UpstreamOrdered ==
    \A c \in calls :
       /\ c.fn = "parse_dialog_json" =>
            IsPermutation(c.ret, c.args[1]) /\ NonDecreasing(c.ret)
       /\ c.fn = "parse_transcript_json" => NonDecreasing(c.ret.activities)

\* C21: every activity that parse_transcript_json returns has a from.role that
\* is "bot", "user", empty or absent, whatever the raw record carried; the raw
\* role 0 becomes "bot" and the raw role 1 becomes "user".
C21_RolesNormalized ==
    \A c \in calls :
       c.fn = "parse_transcript_json" =>
         \A k \in 1..Len(c.ret.activities) :
            /\ c.ret.activities[k].role \in {"bot", "user", "", "<missing>"}
            /\ c.args[1][k].role = INT0 => c.ret.activities[k].role = "bot"
            /\ c.args[1][k].role = INT1 => c.ret.activities[k].role = "user"

\* What a batch run has to attempt: the export folders, then the transcript
\* files, each list in ascending order of name.
ToAttempt ==
    [n \in 1..Len(SortedNames({n \in DOMAIN batch.children :
                                  batch.children[n] \in ExportKinds})) |->
        <<"folder", SortedNames({m \in DOMAIN batch.children :
                                    batch.children[m] \in ExportKinds})[n]>>]
    \o (IF batch.transcripts_dir
        THEN [n \in 1..Len(SortedNames({n \in DOMAIN batch.files :
                                          batch.files[n] \in TranscriptKinds})) |->
                <<"transcript", SortedNames({m \in DOMAIN batch.files :
                                   batch.files[m] \in TranscriptKinds})[n]>>]
        ELSE <<>>)

\* C22: a batch run that has ended has attempted every discovered export folder
\* and every transcript file exactly once in sorted order, whatever failed, and
\* has reached "All done".
C22_BatchAttemptsAll ==
    batch.phase \in {"done", "exit"} =>
       /\ batch.attempted = ToAttempt
       /\ ToAttempt # <<>> =>
            batch.phase = "done" /\ batch.log[Len(batch.log)] = "All done."

\* C23: in render_gantt_chart a gap between two consecutive timestamped events
\* (after sorting and de-duplication) is shown as one Idle marker labelled with
\* the original gap, with no event bar spanning it, if and only if the gap is
\* greater than 5000 ms; every event bar is between 50 and 5000 ms wide.
C23_IdleGapsCollapsed ==
    \A c \in calls :
       c.fn = "render_gantt_chart" =>
         LET timed == Dedupe(SortTimed(Timed(c.args[1])), <<<<>>, 0>>)
             IsBar(l) == l.kind = "bar"
             IsIdle(l) == l.kind = "idle"
             bars == SelectSeq(c.ret, IsBar)
             idles == SelectSeq(c.ret, IsIdle)
         IN  /\ Len(bars) = Len(timed)
             /\ \A i \in 2..Len(timed) :
                   LET gap == IsoToMs(timed[i].event.timestamp)
                                - IsoToMs(timed[i - 1].event.timestamp)
                       markers == {k \in 1..Len(idles) : idles[k].id = i - 1}
                   IN  /\ gap > 5000 <=> markers # {}
                       /\ Cardinality(markers) <= 1
                       /\ \A k \in markers :
                             /\ idles[k].label = <<"Idle ">> \o FormatDuration(gap)
                             /\ bars[i - 1].end <= idles[k].start
                             /\ idles[k].end <= bars[i].start
             /\ \A i \in 1..Len(bars) :
                   /\ bars[i].end - bars[i].start >= 50
                   /\ bars[i].end - bars[i].start <= 5000

IsTrigger(a) == a.type = "event" /\ a.valueType = "DynamicPlanStepTriggered"

\* The index of the last trigger record for step s among the first n records,
\* 0 when there is none.
LastTrigger(s, n) ==
    LET prior == {i \in 1..n : IsTrigger(activities[i])
                                 /\ activities[i].value.stepId = s}
    IN  IF prior = {} THEN 0 ELSE Max(prior)

\* C24: the phase appended for a step-finished record with step id s has as
\* start, and as the base of its duration, the instant of the most recently
\* seen trigger record for s, also when that trigger had no usable timestamp.
C24_LastTriggerWins ==
    [][Iterated =>
        LET a == activities'[pos'[1]]
            s == a.value.stepId
            last == LastTrigger(s, pos[1])
            start == GetTimestamp(activities[last])
            phase == Locals'.phases[Len(Locals'.phases)]
        IN  IsFinish(a) /\ Truthy(s) /\ last # 0
            => /\ Len(Locals'.phases) = Len(Locals.phases) + 1
               /\ phase.start = start
               /\ phase.duration_ms = StepDuration(start, GetTimestamp(a))]_vars

\* The phase appended for the finish record at index j of the input (no record
\* of the step alphabet raises, so every finish record has its phase).
PhaseOf(b, j) == b.phases[Cardinality({i \in 1..j : IsFinish(activities[i])})]

\* C25: the step-correlation map only grows or is overwritten: the set of
\* recorded step ids never shrinks, a finish record leaves the map as it is,
\* and finish records for one step id with no trigger for it in between get
\* phases with the same start.
C25_TriggersKept ==
    [][Iterated =>
        LET a == activities'[pos'[1]]
            s == a.value.stepId
            n == pos[1]
        IN  /\ DOMAIN Locals.step_triggers \subseteq DOMAIN Locals'.step_triggers
            /\ IsFinish(a) =>
                 /\ Locals'.step_triggers = Locals.step_triggers
                 /\ Len(Locals'.phases) = Len(Locals.phases) + 1
                 /\ \A j \in 1..n :
                       /\ IsFinish(activities[j]) /\ activities[j].value.stepId = s
                       /\ LastTrigger(s, j) = LastTrigger(s, n)
                       => PhaseOf(Locals', j).start
                            = Locals'.phases[Len(Locals'.phases)].start]_vars

\* Two finish records for one step followed its trigger: both phases start at
\* the trigger's timestamp and the step id is still recorded.
C25_Witness ==
    /\ pos[1] = 3 /\ pc[1] = "run"
    /\ IsTrigger(activities[1]) /\ activities[1].value.stepId = S1
    /\ IsFinish(activities[2]) /\ activities[2].value.stepId = S1
    /\ IsFinish(activities[3]) /\ activities[3].value.stepId = S1
    /\ Len(Locals.phases) = 2
    /\ Locals.phases[1].start = TS_1 /\ Locals.phases[2].start = TS_1
    /\ S1 \in DOMAIN Locals.step_triggers

\* C26: a phase is built only for a matching pair: every phase of the returned
\* timeline belongs to a finish record whose step id had a trigger record
\* earlier in the input, and every phase has a start.
C26_PhasesArePairs ==
    pc[1] = "done" =>
      \A k \in 1..Len(result[1].phases) :
         /\ result[1].phases[k].start # NONE
         /\ \E j \in 1..Len(activities) :
               /\ IsFinish(activities[j])
               /\ Cardinality({i \in 1..j : IsFinish(activities[i])}) = k
               /\ LastTrigger(activities[j].value.stepId, j) # 0

(***************************************************************************)
(* C28: errors and events                                                  *)
(***************************************************************************)
RECURSIVE ExceptionsSeen(_)
\* The sub-actions with a non-empty exception in the DialogTracingInfo records
\* among the first n activities.
ExceptionsSeen(n) ==
    IF n = 0 THEN 0
    ELSE ExceptionsSeen(n - 1)
           + (IF IsTracing(activities[n])
              THEN Cardinality({i \in 1..Len(activities[n].value.actions.v) :
                                  Truthy(activities[n].value.actions.v[i].exception)})
              ELSE 0)

\* The events of one type the locals hold.
EventsOfType(b, event_type) == SelectSeq(b.events, LAMBDA e : e.event_type = event_type)

\* C28: after every activity processed, len(errors) is the number of
\* STEP_FINISHED events whose error is set, plus the number of ERROR events,
\* plus the number of trace sub-actions seen with a non-empty exception; and the
\* STEP_FINISHED event of a record has its error set exactly when the record
\* appended a string to errors.
C28_ErrorsMatchEvents ==
    /\ [](pc[1] = "run" =>
            Len(Locals.errors)
              = Len(SelectSeq(EventsOfType(Locals, "STEP_FINISHED"),
                              LAMBDA e : e.error # NONE))
                  + Len(EventsOfType(Locals, "ERROR"))
                  + ExceptionsSeen(pos[1]))
    /\ [][Iterated /\ IsFinish(activities'[pos'[1]]) =>
            LET e == Locals'.events[Len(Locals'.events)]
            IN  /\ e.event_type = "STEP_FINISHED"
                /\ e.error # NONE <=> Len(Locals'.errors) = Len(Locals.errors) + 1]_vars

(***************************************************************************)
(* C27: epoch timestamps handed to the core                                *)
(***************************************************************************)
\* C27: the ISO string made from an epoch value (epoch seconds by
\* parse_transcript_json, epoch milliseconds by _epoch_to_iso) is parsed by
\* _parse_timestamp to the same instant, and the duration between two of them
\* is the difference of the epoch values.
C27_EpochRoundTrip ==
    \A c \in calls :
       c.fn \in {"parse_transcript_json", "_epoch_to_iso"} =>
          LET unit == IF c.fn = "parse_transcript_json" THEN 1000 ELSE 1
          IN  /\ c.ret.start = c.args[1] * unit
              /\ c.ret.end = c.args[2] * unit
              /\ c.ret.duration = (c.args[2] - c.args[1]) * unit

(***************************************************************************)
(* C29, C30: the web session                                               *)
(***************************************************************************)
\* C29: in every state the handlers of the session can reach, a report is
\* stored only if the session is authenticated.
C29_ReportOnlyWhenAuthenticated ==
    session.report_markdown # <<>> => session.is_authenticated

\* A run of handle_upload has just ended.
UploadEnded == session' # session /\ session'.done = "handle_upload"

\* C30: every run of handle_upload ends with is_processing false; when
\* processing raised, upload_error is set and the stored report_markdown and
\* report_title are as they were.
C30_UploadAlwaysEnds ==
    [][UploadEnded =>
          /\ ~session'.is_processing
          /\ (~Idle /\ Try(session, session.uploading).raised) =>
                /\ session'.upload_error # <<>>
                /\ session'.report_markdown = session.report_markdown
                /\ session'.report_title = session.report_title]_vars

\* A run that raised has ended while a report of an earlier run was stored.
C30_Witness ==
    /\ session.done = "handle_upload"
    /\ session.upload_error = <<"Processing failed: ", "boom">>
    /\ session.report_markdown # <<>>
    /\ ~session.is_processing
====
